---- MODULE Spec2Model ----
(***************************************************************************)
(* Navigation and viewport engine of the zathura document viewer:          *)
(* shortcuts.c (sc_goto, sc_navigate, sc_scroll, sc_jumplist, sc_bisect,   *)
(* sc_search, sc_adjust_window, sc_rotate) over the jumplist, the           *)
(* document's current page, scale and rotation and the per-page search     *)
(* cursors; links.c (zathura_link_new, zathura_link_evaluate).             *)
(*                                                                         *)
(* The jumplist primitives and page_set live in zathura.c,                 *)
(* which is not part of the sources at hand; they are modelled             *)
(* from the design document (section 4.4) and every handler of shortcuts.c *)
(* is modelled from its code, calling them in the order the code does.     *)
(* A jump entry is modelled by its page.  Where the jumplist and the        *)
(* search are explored the view shows the whole canvas (ScrollIdle), so     *)
(* that every scroll position a handler requests is set to 0 by             *)
(* zathura_adjustment_set_value and the x/y fields of the entries are 0;    *)
(* scrolling itself is explored under SpecScroll, links under SpecLink,     *)
(* sc_navigate with wrapping counts under SpecNavigate, sc_adjust_window    *)
(* under SpecAdjust and sc_rotate under SpecRotate.  Scales are exact       *)
(* fractions in lowest terms.                                               *)
(***************************************************************************)
EXTENDS Integers, Sequences, FiniteSets, TLC

VARIABLES
  number_of_pages,   \* zathura_document_get_number_of_pages
  cur_page,          \* zathura_document_get_current_page_number
  jumplist,          \* zathura->jumplist: the entries, oldest first
  jumplist_cur,      \* zathura->jumplist: the cursor, an index from 0
  search_length,     \* per page: the page widget's "search-length"
  search_current,    \* per page: the page widget's "search-current", -1 = none
  search_direction,  \* zathura->global.search_direction
  last,              \* the command executed last and the state it started in:
                     \* [cmd, n, t, gap0, page0, cur0, len0]
  vadjustment,       \* the view's vertical GtkAdjustment: [value, page_size, upper]
  hadjustment,       \* the view's horizontal GtkAdjustment
  settings,          \* the girara settings sc_scroll and sc_search read
  update_page_number,\* zathura->global.update_page_number
  scrolled,          \* the sc_scroll executed last: its argument and count, the
                     \* value it read and the new_value it computed
  document_loaded,   \* zathura->document != NULL
  scale,             \* zathura_document_get_scale, a fraction [num, den]
  rotation,          \* zathura_document_get_rotation, in degrees
  adjust_mode,       \* zathura_document_get_adjust_mode
  mode,              \* girara_mode_get: "normal" or "fullscreen"
  statics,           \* the statics of sc_toggle_fullscreen: [fullscreen,
                     \* pages_per_row, first_page_column, zoom]
  link,              \* the link zathura_link_new returned last (NoLink: NULL)
  link_args,         \* the arguments of that call: [type, position, target]
  position_request,  \* the position handed to position_set_delayed last
  effects            \* what the link or window handler executed last was given
                     \* and what it called: [cmd, opener_ok, offset, hadjust,
                     \* notify, xdg_open, spawn, render_all]

window_vars == <<mode, statics>>
doc_vars == <<number_of_pages, document_loaded, scale, rotation, adjust_mode,
              window_vars>>
link_vars == <<link, link_args, position_request, effects>>
search_vars == <<search_length, search_current, search_direction>>
scroll_vars == <<vadjustment, hadjustment, settings, update_page_number, scrolled>>
vars == <<number_of_pages, cur_page, jumplist, jumplist_cur,
          search_length, search_current, search_direction, last,
          vadjustment, hadjustment, settings, update_page_number, scrolled,
          document_loaded, scale, rotation, adjust_mode, mode, statics,
          link, link_args, position_request, effects>>

----------------------------------------------------------------------------
(* Bounds of the model *)

MaxPages == 4          \* documents have 1..MaxPages pages
JumplistMaxSize == 3   \* capacity of the jumplist
MaxPageOffset == 1     \* the document's page offset is in 0..MaxPageOffset
MaxPagesPerRow == 2    \* the setting pages-per-row is in 1..MaxPagesPerRow
SearchMaxPages == 3    \* searched documents have 1..SearchMaxPages pages
MaxResults == 2        \* a page holds 0..MaxResults search results
MaxCount == 3          \* small counts typed before a command: 0..MaxCount
MaxViewSize == 3       \* the view is 1..MaxViewSize pixels long
MaxOverhang == 2       \* the canvas exceeds the view by 0..MaxOverhang pixels
MaxLinkPage == 2       \* links point to the pages 0..MaxLinkPage
MaxCell == 2           \* a page cell is 1..MaxCell pixels wide and high
MaxInitJumps == 2      \* the bisections start from jumplists of 0..MaxInitJumps entries

----------------------------------------------------------------------------
(* Argument values of the shortcuts (girara_argument_t.n) *)

FORWARD == "FORWARD"
BACKWARD == "BACKWARD"
TOP == "TOP"
BOTTOM == "BOTTOM"
NEXT == "NEXT"
PREVIOUS == "PREVIOUS"
NO_ARG == "NO_ARG"
UP == "UP"
DOWN == "DOWN"
LEFT == "LEFT"
RIGHT == "RIGHT"
FULL_UP == "FULL_UP"
FULL_DOWN == "FULL_DOWN"
FULL_LEFT == "FULL_LEFT"
FULL_RIGHT == "FULL_RIGHT"
HALF_UP == "HALF_UP"
HALF_DOWN == "HALF_DOWN"
HALF_LEFT == "HALF_LEFT"
HALF_RIGHT == "HALF_RIGHT"
ROTATE_CW == "ROTATE_CW"
ROTATE_CCW == "ROTATE_CCW"
ZOOM_IN == "ZOOM_IN"
ZOOM_OUT == "ZOOM_OUT"
ZOOM_SPECIFIC == "ZOOM_SPECIFIC"

\* unsigned int (32 bit) values that can be large are held as two 16-bit
\* halves [hi, lo], the checker's integers being 32-bit signed themselves.
U32Of(k) == [hi |-> (k \div 65536) % 65536, lo |-> k % 65536]
U32Max == [hi |-> 65535, lo |-> 65535]

U32Add(a, b) ==
  LET lo == a.lo + b.lo
  IN [hi |-> (a.hi + b.hi + (lo \div 65536)) % 65536, lo |-> lo % 65536]

U32Sub(a, b) ==
  LET lo == a.lo - b.lo
      borrow == IF lo < 0 THEN 1 ELSE 0
  IN [hi |-> (a.hi - b.hi - borrow) % 65536, lo |-> lo % 65536]

\* a % k for an unsigned a and 0 < k < 2^15
U32Mod(a, k) == ((a.hi % k) * (65536 % k) + (a.lo % k)) % k

U32IsZero(a) == a.hi = 0 /\ a.lo = 0

\* conversion of an unsigned int to int (two's complement)
ToInt(a) == IF a.hi >= 32768 THEN (a.hi - 65536) * 65536 + a.lo
            ELSE a.hi * 65536 + a.lo

\* the counts drawn for commands whose count may wrap: the small ones and the
\* largest unsigned ints
Counts == {U32Of(k) : k \in 0..MaxCount} \cup {U32Max, U32Sub(U32Max, U32Of(1))}

----------------------------------------------------------------------------
(* The jumplist (design document, 4.4).  jl = [list, cur]. *)

Jump(p) == [page |-> p]
NoJump == [page |-> -1]

JL == [list |-> jumplist, cur |-> jumplist_cur]

\* the record of a command: its name, its argument, its count (goto and
\* bisect; 0 otherwise), the distance to the bisection anchor (bisect; 0
\* otherwise), and the page, the cursor
\* and the length of the jumplist it started with
Ran(cmd, n, t) ==
  [cmd |-> cmd, n |-> n, t |-> t, gap0 |-> 0,
   page0 |-> cur_page, cur0 |-> jumplist_cur, len0 |-> Len(jumplist)]

zathura_jumplist_current(jl) ==
  IF jl.list = <<>> THEN NoJump ELSE jl.list[jl.cur + 1]

zathura_jumplist_has_previous(jl) == jl.cur > 0

zathura_jumplist_forward(jl) ==
  IF jl.cur + 1 < Len(jl.list) THEN [jl EXCEPT !.cur = jl.cur + 1] ELSE jl

zathura_jumplist_backward(jl) ==
  IF jl.cur > 0 THEN [jl EXCEPT !.cur = jl.cur - 1] ELSE jl

\* save(): drop what follows the cursor, then overwrite the cursor entry with
\* the current position (append when the list is empty); the cursor stays.
zathura_jumplist_save(jl, page) ==
  IF jl.list = <<>>
    THEN [list |-> <<Jump(page)>>, cur |-> 0]
    ELSE [list |-> [SubSeq(jl.list, 1, jl.cur + 1) EXCEPT ![jl.cur + 1] = Jump(page)],
          cur  |-> jl.cur]

\* add(): drop what follows the cursor, append the current position, move the
\* cursor to the new tail; beyond the capacity the oldest entry is dropped.
zathura_jumplist_add(jl, page) ==
  LET kept == IF jl.list = <<>> THEN <<>> ELSE SubSeq(jl.list, 1, jl.cur + 1)
      app  == Append(kept, Jump(page))
      l    == IF Len(app) > JumplistMaxSize THEN Tail(app) ELSE app
  IN [list |-> l, cur |-> Len(l) - 1]

\* page_set(): the page becomes current when the document has it.
page_set(cur, page) ==
  IF page >= 0 /\ page < number_of_pages THEN page ELSE cur

----------------------------------------------------------------------------
(* sc_goto.  page_offset is what zathura_document_get_page_offset returns; the
   counts drawn are small, so that t + page_offset does not wrap. *)

\* sc_goto without the two jumplist calls
sc_goto_unrecorded(n, t, page_offset) ==
  LET p1 == IF t # 0 THEN page_set(cur_page, t + page_offset - 1)
            ELSE IF n = TOP THEN page_set(cur_page, 0)
            ELSE IF n = BOTTOM THEN page_set(cur_page, number_of_pages - 1)
            ELSE cur_page
  IN /\ cur_page' = p1
     /\ last' = Ran("goto", n, t)
     /\ UNCHANGED <<doc_vars, link_vars, scroll_vars, search_vars, jumplist, jumplist_cur>>

\* sc_goto with zathura_jumplist_add called before the page is set
sc_goto_add_first(n, t, page_offset) ==
  LET j1 == zathura_jumplist_save(JL, cur_page)
      j2 == zathura_jumplist_add(j1, cur_page)
      p1 == IF t # 0 THEN page_set(cur_page, t + page_offset - 1)
            ELSE IF n = TOP THEN page_set(cur_page, 0)
            ELSE IF n = BOTTOM THEN page_set(cur_page, number_of_pages - 1)
            ELSE cur_page
  IN /\ cur_page' = p1
     /\ jumplist' = j2.list
     /\ jumplist_cur' = j2.cur
     /\ last' = Ran("goto", n, t)
     /\ UNCHANGED <<doc_vars, link_vars, scroll_vars, search_vars>>

\* sc_goto without zathura_jumplist_save before the page is set
sc_goto_unsaved(n, t, page_offset) ==
  LET p1 == IF t # 0 THEN page_set(cur_page, t + page_offset - 1)
            ELSE IF n = TOP THEN page_set(cur_page, 0)
            ELSE IF n = BOTTOM THEN page_set(cur_page, number_of_pages - 1)
            ELSE cur_page
      j2 == zathura_jumplist_add(JL, p1)
  IN /\ cur_page' = p1
     /\ jumplist' = j2.list
     /\ jumplist_cur' = j2.cur
     /\ last' = Ran("goto", n, t)
     /\ UNCHANGED <<doc_vars, link_vars, scroll_vars, search_vars>>

sc_goto(n, t, page_offset) ==
  LET j1 == zathura_jumplist_save(JL, cur_page)
      p1 == IF t # 0 THEN page_set(cur_page, t + page_offset - 1)
            ELSE IF n = TOP THEN page_set(cur_page, 0)
            ELSE IF n = BOTTOM THEN page_set(cur_page, number_of_pages - 1)
            ELSE cur_page
      j2 == zathura_jumplist_add(j1, p1)
  IN /\ cur_page' = p1
     /\ jumplist' = j2.list
     /\ jumplist_cur' = j2.cur
     /\ last' = Ran("goto", n, t)
     /\ UNCHANGED <<doc_vars, link_vars, scroll_vars, search_vars>>

----------------------------------------------------------------------------
(* sc_jumplist *)

\* sc_jumplist moving the cursor without saving the position first
sc_jumplist_unsaved(n) ==
  LET j1 == IF n = FORWARD THEN zathura_jumplist_forward(JL)
            ELSE IF n = BACKWARD THEN zathura_jumplist_backward(JL)
            ELSE JL
      jump == IF n \in {FORWARD, BACKWARD} THEN zathura_jumplist_current(j1) ELSE NoJump
  IN /\ cur_page' = IF jump # NoJump THEN page_set(cur_page, jump.page) ELSE cur_page
     /\ jumplist' = j1.list
     /\ jumplist_cur' = j1.cur
     /\ last' = Ran("jumplist", n, 0)
     /\ UNCHANGED <<doc_vars, link_vars, scroll_vars, search_vars>>

\* sc_jumplist stepping back (or forward) twice
sc_jumplist_twice(n) ==
  LET s0 == zathura_jumplist_save(JL, cur_page)
      j1 == IF n = FORWARD
              THEN zathura_jumplist_forward(zathura_jumplist_forward(s0))
            ELSE IF n = BACKWARD
              THEN zathura_jumplist_backward(zathura_jumplist_backward(s0))
            ELSE JL
      jump == IF n \in {FORWARD, BACKWARD} THEN zathura_jumplist_current(j1) ELSE NoJump
  IN /\ cur_page' = IF jump # NoJump THEN page_set(cur_page, jump.page) ELSE cur_page
     /\ jumplist' = j1.list
     /\ jumplist_cur' = j1.cur
     /\ last' = Ran("jumplist", n, 0)
     /\ UNCHANGED <<doc_vars, link_vars, scroll_vars, search_vars>>

sc_jumplist(n) ==
  LET j1 == IF n = FORWARD
              THEN zathura_jumplist_forward(zathura_jumplist_save(JL, cur_page))
            ELSE IF n = BACKWARD
              THEN zathura_jumplist_backward(zathura_jumplist_save(JL, cur_page))
            ELSE JL
      jump == IF n \in {FORWARD, BACKWARD} THEN zathura_jumplist_current(j1) ELSE NoJump
  IN /\ cur_page' = IF jump # NoJump THEN page_set(cur_page, jump.page) ELSE cur_page
     /\ jumplist' = j1.list
     /\ jumplist_cur' = j1.cur
     /\ last' = Ran("jumplist", n, 0)
     /\ UNCHANGED <<doc_vars, link_vars, scroll_vars, search_vars>>

----------------------------------------------------------------------------
(* sc_navigate.  t is an unsigned int [hi, lo]; wrap, advance and ppr are the
   settings scroll-wrap, advance-pages-per-row and pages-per-row. *)

navigate_count(t, advance, ppr) ==
  IF U32IsZero(t) THEN U32Of(IF advance THEN ppr ELSE 1) ELSE t

\* the value of the int new_page before the range check
navigate_new_page(n, t, wrap, advance, ppr) ==
  LET c == navigate_count(t, advance, ppr)
  IN IF n = NEXT
       THEN IF ~wrap THEN ToInt(U32Add(U32Of(cur_page), c))
            ELSE U32Mod(U32Add(U32Of(cur_page), c), number_of_pages)
     ELSE IF n = PREVIOUS
       THEN IF ~wrap THEN ToInt(U32Sub(U32Of(cur_page), c))
            ELSE U32Mod(U32Sub(U32Of(cur_page + number_of_pages), c), number_of_pages)
     ELSE cur_page

sc_navigate(n, t, wrap, advance, ppr) ==
  LET new_page == navigate_new_page(n, t, wrap, advance, ppr)
  IN /\ cur_page' = IF (new_page < 0 \/ new_page >= number_of_pages) /\ ~wrap
                      THEN cur_page
                      ELSE page_set(cur_page, new_page)
     /\ last' = Ran("navigate", n, 0)
     /\ UNCHANGED <<doc_vars, link_vars, scroll_vars, search_vars, jumplist, jumplist_cur>>

----------------------------------------------------------------------------
(* sc_bisect *)

\* bisect_peek with the forward after the look at prev2 left out
bisect_peek_one_forward(jl) ==
  IF zathura_jumplist_has_previous(jl)
    THEN LET b1 == zathura_jumplist_backward(jl)
             prev_jump == zathura_jumplist_current(b1)
             two == zathura_jumplist_has_previous(b1)
             b2 == zathura_jumplist_backward(b1)
             prev2_jump == zathura_jumplist_current(b2)
             f1 == IF two THEN b2 ELSE b1
         IN [jl |-> zathura_jumplist_forward(f1),
             have_prev |-> prev_jump # NoJump,
             prev_page |-> IF prev_jump # NoJump THEN prev_jump.page ELSE 0,
             have_prev2 |-> two /\ prev2_jump # NoJump,
             prev2_page |-> IF two /\ prev2_jump # NoJump THEN prev2_jump.page ELSE 0]
    ELSE [jl |-> jl, have_prev |-> FALSE, prev_page |-> 0,
          have_prev2 |-> FALSE, prev2_page |-> 0]

\* the look at the one or two entries before the cursor (backward, backward,
\* forward, forward); jl is the jumplist it leaves
bisect_peek(jl) ==
  IF zathura_jumplist_has_previous(jl)
    THEN LET b1 == zathura_jumplist_backward(jl)
             prev_jump == zathura_jumplist_current(b1)
             two == zathura_jumplist_has_previous(b1)
             b2 == zathura_jumplist_backward(b1)
             prev2_jump == zathura_jumplist_current(b2)
             f1 == IF two THEN zathura_jumplist_forward(b2) ELSE b1
         IN [jl |-> zathura_jumplist_forward(f1),
             have_prev |-> prev_jump # NoJump,
             prev_page |-> IF prev_jump # NoJump THEN prev_jump.page ELSE 0,
             have_prev2 |-> two /\ prev2_jump # NoJump,
             prev2_page |-> IF two /\ prev2_jump # NoJump THEN prev2_jump.page ELSE 0]
    ELSE [jl |-> jl, have_prev |-> FALSE, prev_page |-> 0,
          have_prev2 |-> FALSE, prev2_page |-> 0]

\* "save current position at previous jump point", then jump to page mid and
\* save again
bisect_refine(jl, cur, mid) ==
  LET b == zathura_jumplist_save(zathura_jumplist_backward(jl), cur)
      f == zathura_jumplist_forward(b)
      p == page_set(cur, mid)
  IN [jl |-> zathura_jumplist_save(f, p), page |-> p]

\* page_set(mid) followed by zathura_jumplist_add
bisect_jump(jl, cur, mid) ==
  LET p == page_set(cur, mid)
  IN [jl |-> zathura_jumplist_add(jl, p), page |-> p]

\* case FORWARD with the fallback going to cur + number_of_pages - 1, not
\* halved, and recording that page whether the document has it or not
bisect_forward_unhalved(cur, pk) ==
  IF pk.have_prev /\ cur <= pk.prev_page
    THEN IF cur < pk.prev_page
           THEN bisect_jump(pk.jl, cur, (cur + pk.prev_page) \div 2)
           ELSE [jl |-> pk.jl, page |-> cur]
  ELSE IF pk.have_prev2 /\ cur <= pk.prev2_page
    THEN IF cur < pk.prev2_page
           THEN bisect_refine(pk.jl, cur, (cur + pk.prev2_page) \div 2)
           ELSE [jl |-> pk.jl, page |-> cur]
  ELSE [jl |-> zathura_jumplist_add(pk.jl, cur + number_of_pages - 1),
        page |-> cur + number_of_pages - 1]

\* case FORWARD with the fallback taking the midpoint of case BACKWARD
bisect_forward_half(cur, pk) ==
  IF pk.have_prev /\ cur <= pk.prev_page
    THEN IF cur < pk.prev_page
           THEN bisect_jump(pk.jl, cur, (cur + pk.prev_page) \div 2)
           ELSE [jl |-> pk.jl, page |-> cur]
  ELSE IF pk.have_prev2 /\ cur <= pk.prev2_page
    THEN IF cur < pk.prev2_page
           THEN bisect_refine(pk.jl, cur, (cur + pk.prev2_page) \div 2)
           ELSE [jl |-> pk.jl, page |-> cur]
  ELSE bisect_jump(pk.jl, cur, cur \div 2)

\* case FORWARD of the switch; pk is the result of bisect_peek
bisect_forward(cur, pk) ==
  IF pk.have_prev /\ cur <= pk.prev_page
    THEN IF cur < pk.prev_page
           THEN bisect_jump(pk.jl, cur, (cur + pk.prev_page) \div 2)
           ELSE [jl |-> pk.jl, page |-> cur]
  ELSE IF pk.have_prev2 /\ cur <= pk.prev2_page
    THEN IF cur < pk.prev2_page
           THEN bisect_refine(pk.jl, cur, (cur + pk.prev2_page) \div 2)
           ELSE [jl |-> pk.jl, page |-> cur]
  ELSE bisect_jump(pk.jl, cur, (cur + number_of_pages - 1) \div 2)

\* case BACKWARD with the fallback rounding its midpoint up
bisect_backward_ceil(cur, pk) ==
  IF pk.have_prev /\ pk.prev_page <= cur
    THEN IF pk.prev_page < cur
           THEN bisect_jump(pk.jl, cur, (cur + pk.prev_page) \div 2)
           ELSE [jl |-> pk.jl, page |-> cur]
  ELSE IF pk.have_prev2 /\ pk.prev2_page <= cur
    THEN IF pk.prev2_page < cur
           THEN bisect_refine(pk.jl, cur, (cur + pk.prev2_page) \div 2)
           ELSE [jl |-> pk.jl, page |-> cur]
  ELSE bisect_jump(pk.jl, cur, (cur + 1) \div 2)

\* case BACKWARD of the switch
bisect_backward(cur, pk) ==
  IF pk.have_prev /\ pk.prev_page <= cur
    THEN IF pk.prev_page < cur
           THEN bisect_jump(pk.jl, cur, (cur + pk.prev_page) \div 2)
           ELSE [jl |-> pk.jl, page |-> cur]
  ELSE IF pk.have_prev2 /\ pk.prev2_page <= cur
    THEN IF pk.prev2_page < cur
           THEN bisect_refine(pk.jl, cur, (cur + pk.prev2_page) \div 2)
           ELSE [jl |-> pk.jl, page |-> cur]
  ELSE bisect_jump(pk.jl, cur, cur \div 2)

\* the switch on the direction
bisect_switch(direction, cur, pk) ==
  IF direction = FORWARD THEN bisect_forward(cur, pk)
  ELSE IF direction = BACKWARD THEN bisect_backward(cur, pk)
  ELSE [jl |-> pk.jl, page |-> cur]

\* the anchor a sc_bisect(FORWARD) without count bisects toward in this state:
\* prev or prev2 when the one looked at first is not before the current page,
\* the last page otherwise
BisectAnchor ==
  LET pk == bisect_peek(zathura_jumplist_save(JL, cur_page))
  IN IF pk.have_prev /\ cur_page <= pk.prev_page THEN pk.prev_page
     ELSE IF pk.have_prev2 /\ cur_page <= pk.prev2_page THEN pk.prev2_page
     ELSE number_of_pages - 1

BisectGap == BisectAnchor - cur_page

\* bisect_direction going backward when the page named precedes the current
bisect_direction_precedes(n, t) ==
  IF t > 0 /\ t <= number_of_pages
    THEN IF t - 1 < cur_page THEN BACKWARD ELSE FORWARD
    ELSE n

\* the direction bisected in: decided by the count when it names a page
bisect_direction(n, t) ==
  IF t > 0 /\ t <= number_of_pages
    THEN IF t - 1 > cur_page THEN BACKWARD ELSE FORWARD
    ELSE n

sc_bisect(n, t) ==
  LET j1 == zathura_jumplist_save(JL, cur_page)
      explicit == t > 0 /\ t <= number_of_pages
      p1 == IF explicit THEN page_set(cur_page, t - 1) ELSE cur_page
      j2 == IF explicit THEN zathura_jumplist_add(j1, p1) ELSE j1
      r  == bisect_switch(bisect_direction(n, t), p1, bisect_peek(j2))
  IN /\ cur_page' = r.page
     /\ jumplist' = r.jl.list
     /\ jumplist_cur' = r.jl.cur
     /\ last' = [Ran("bisect", n, t) EXCEPT !.gap0 = BisectGap]
     /\ UNCHANGED <<doc_vars, link_vars, scroll_vars, search_vars>>

----------------------------------------------------------------------------
(* sc_search: the scans *)

Pages == 0..(number_of_pages - 1)

\* the step taken for the argument alone
search_diff_of_argument(n) == IF n = FORWARD THEN 1 ELSE -1

search_diff(n) ==
  LET d == IF n = FORWARD THEN 1 ELSE -1
  IN IF search_direction = BACKWARD THEN -d ELSE d

\* the % of C on ints: the quotient is truncated towards zero
CRem(a, b) == IF a >= 0 THEN a % b ELSE -((-a) % b)

\* the index of the outer loop without num_pages added
search_scan_page_unshifted(diff, page_id) ==
  CRem(cur_page + diff * page_id, number_of_pages)

\* the page the outer loop looks at in iteration page_id
search_scan_page(diff, page_id) ==
  CRem(cur_page + diff * page_id + number_of_pages, number_of_pages)

\* every page with results taken for the page of the cursor
search_is_active_any(p) == p \in Pages /\ search_length[p] # 0

\* the outer loop goes on when the document has no page p (page == NULL),
\* when the page has no results and when it has no cursor
search_is_active(p) ==
  p \in Pages /\ ~(search_length[p] = 0 \/ search_current[p] = -1)

\* the iterations of the outer loop that stop at a page with an active cursor
search_hits(diff) ==
  {k \in 0..(number_of_pages - 1) : search_is_active(search_scan_page(diff, k))}

search_first_hit(diff) ==
  CHOOSE k \in search_hits(diff) : \A j \in search_hits(diff) : k <= j

\* the inner loop counting from the current page instead of the page left
search_next_page_from_current(diff, page_id, npage_id) ==
  (cur_page + diff * npage_id + 2 * number_of_pages) % number_of_pages

\* the page the inner loop looks at in iteration npage_id
search_next_page(diff, page_id, npage_id) ==
  CRem(cur_page + diff * (page_id + npage_id) + 2 * number_of_pages, number_of_pages)

\* the inner loop from iteration npage_id on: the iteration it breaks in.  Its
\* condition (page_id < num_pages) holds throughout, so only the break ends it.
\* the inner loop breaking in its first iteration
search_inner_first(diff, page_id, npage_id) == npage_id

RECURSIVE search_inner(_, _, _)
search_inner(diff, page_id, npage_id) ==
  IF search_length[search_next_page(diff, page_id, npage_id)] # 0
    THEN npage_id
    ELSE search_inner(diff, page_id, npage_id + 1)

----------------------------------------------------------------------------
(* sc_scroll.  The doubles of the code (values, sizes and bounds of the
   adjustments, new_value) are held in half pixels, which is exact for the
   inputs drawn: whole-pixel sizes and steps, and an overlap of 0, 1/2 or 1.
   settings.scroll_full_overlap holds the overlap in halves (0, 1, 2). *)

Px(k) == 2 * k

Adjustment(value, page_size, upper) ==
  [value |-> value, page_size |-> page_size, upper |-> upper]

IsHorizontal(n) ==
  n \in {LEFT, FULL_LEFT, HALF_LEFT, RIGHT, FULL_RIGHT, HALF_RIGHT}

scroll_adjustment(n) == IF IsHorizontal(n) THEN hadjustment ELSE vadjustment

scroll_max(adj) == adj.upper - adj.page_size

scroll_count(t) == IF t = 0 THEN 1 ELSE t

\* scroll-hstep read without the fallback to scroll-step
scroll_hstep_unset(set) == set.scroll_hstep

scroll_hstep(set) ==
  IF set.scroll_hstep < 0 THEN set.scroll_step ELSE set.scroll_hstep

\* the switch on argument->n
scroll_base(n, t, adj, set) ==
  LET value == adj.value
      view_size == adj.page_size
      padding == Px(set.page_padding)
      full == ((2 - set.scroll_full_overlap) * view_size) \div 2
      half == (view_size + padding) \div 2
  IN CASE n \in {FULL_UP, FULL_LEFT} -> value - full - padding
       [] n \in {FULL_DOWN, FULL_RIGHT} -> value + full + padding
       [] n \in {HALF_UP, HALF_LEFT} -> value - half
       [] n \in {HALF_DOWN, HALF_RIGHT} -> value + half
       [] n = LEFT -> value - Px(scroll_hstep(set)) * scroll_count(t)
       [] n = UP -> value - Px(set.scroll_step) * scroll_count(t)
       [] n = RIGHT -> value + Px(scroll_hstep(set)) * scroll_count(t)
       [] n = DOWN -> value + Px(set.scroll_step) * scroll_count(t)
       [] n = TOP -> 0
       [] n = BOTTOM -> scroll_max(adj)
       [] OTHER -> value

scroll_wrap(new_value, max, set) ==
  IF set.scroll_wrap
    THEN IF new_value < 0 THEN max
         ELSE IF new_value > max THEN 0
         ELSE new_value
    ELSE new_value

\* offset and size of the current page along the axis, in pixels, as
\* page_calculate_offset and zathura_page_get_width/height give them, turned
\* into the page_offset and page_size the snapping uses
scroll_page(page, set) ==
  [page_offset |-> Px(page.offset - (set.page_padding \div 2)),
   page_size   |-> Px(page.size + set.page_padding)]

\* the snapping applied to the step directions, Top and Bottom as well
scroll_snap_every_direction(n, adj, new_value, pg) ==
  LET value == adj.value
      view_size == adj.page_size
      page_offset == pg.page_offset
      page_size == pg.page_size
  IN IF n \in {FULL_DOWN, HALF_DOWN, FULL_RIGHT, HALF_RIGHT, DOWN, RIGHT, BOTTOM}
       THEN IF page_offset > value /\ page_offset < value + view_size
              THEN page_offset
            ELSE IF page_offset <= value /\ page_offset + page_size < value + view_size
              THEN page_offset + page_size + Px(1)
            ELSE IF page_offset <= value /\ page_offset + page_size < new_value + view_size
              THEN page_offset + page_size - view_size + Px(1)
            ELSE new_value
     ELSE IF n \in {FULL_UP, HALF_UP, FULL_LEFT, HALF_LEFT, UP, LEFT, TOP}
       THEN IF page_offset + Px(1) >= value /\ page_offset < value + view_size
              THEN page_offset - view_size
            ELSE IF page_offset <= value /\ page_offset + page_size + Px(1) < value + view_size
              THEN page_offset + page_size - view_size
            ELSE IF page_offset <= value /\ page_offset > new_value
              THEN page_offset
            ELSE new_value
     ELSE new_value

\* the snapping with the view added, not subtracted, in the last forward case
scroll_snap_sign(n, adj, new_value, pg) ==
  LET value == adj.value
      view_size == adj.page_size
      page_offset == pg.page_offset
      page_size == pg.page_size
  IN IF n \in {FULL_DOWN, HALF_DOWN, FULL_RIGHT, HALF_RIGHT}
       THEN IF page_offset > value /\ page_offset < value + view_size
              THEN page_offset
            ELSE IF page_offset <= value /\ page_offset + page_size < value + view_size
              THEN page_offset + page_size + Px(1)
            ELSE IF page_offset <= value /\ page_offset + page_size < new_value + view_size
              THEN page_offset + page_size + view_size + Px(1)
            ELSE new_value
     ELSE IF n \in {FULL_UP, HALF_UP, FULL_LEFT, HALF_LEFT}
       THEN IF page_offset + Px(1) >= value /\ page_offset < value + view_size
              THEN page_offset - view_size
            ELSE IF page_offset <= value /\ page_offset + page_size + Px(1) < value + view_size
              THEN page_offset + page_size - view_size
            ELSE IF page_offset <= value /\ page_offset > new_value
              THEN page_offset
            ELSE new_value
     ELSE new_value

\* the snapping to the page for the Full and Half directions
scroll_snap(n, adj, new_value, pg) ==
  LET value == adj.value
      view_size == adj.page_size
      page_offset == pg.page_offset
      page_size == pg.page_size
  IN IF n \in {FULL_DOWN, HALF_DOWN, FULL_RIGHT, HALF_RIGHT}
       THEN IF page_offset > value /\ page_offset < value + view_size
              THEN page_offset
            ELSE IF page_offset <= value /\ page_offset + page_size < value + view_size
              THEN page_offset + page_size + Px(1)
            ELSE IF page_offset <= value /\ page_offset + page_size < new_value + view_size
              THEN page_offset + page_size - view_size + Px(1)
            ELSE new_value
     ELSE IF n \in {FULL_UP, HALF_UP, FULL_LEFT, HALF_LEFT}
       THEN IF page_offset + Px(1) >= value /\ page_offset < value + view_size
              THEN page_offset - view_size
            ELSE IF page_offset <= value /\ page_offset + page_size + Px(1) < value + view_size
              THEN page_offset + page_size - view_size
            ELSE IF page_offset <= value /\ page_offset > new_value
              THEN page_offset
            ELSE new_value
     ELSE new_value

\* the new_value sc_scroll hands to zathura_adjustment_set_value
scroll_new_value(n, t, adj, set, page) ==
  LET wrapped == scroll_wrap(scroll_base(n, t, adj, set), scroll_max(adj), set)
  IN IF set.scroll_page_aware
       THEN scroll_snap(n, adj, wrapped, scroll_page(page, set))
       ELSE wrapped

\* zathura_adjustment_set_value (utils.c): the value is set within
\* [0, upper - page_size]
zathura_adjustment_set_value(adj, value) ==
  LET max == scroll_max(adj)
  IN [adj EXCEPT !.value = IF value < 0 THEN 0 ELSE IF value > max THEN max ELSE value]

\* the places the current page can have on the canvas of an adjustment, in
\* pixels
PageGeometries(adj) ==
  {pg \in [offset : 0..((adj.upper \div 2) - 1), size : 1..(adj.upper \div 2)] :
     pg.offset + pg.size <= adj.upper \div 2}

NoPage == [offset |-> 0, size |-> 0]

\* sc_scroll with argument n and count t while the current page lies at page
\* on the canvas
sc_scroll_page(n, t, page) ==
  LET adj == scroll_adjustment(n)
      new_value == scroll_new_value(n, t, adj, settings, page)
  IN /\ update_page_number' = TRUE
     /\ IF IsHorizontal(n)
          THEN /\ hadjustment' = zathura_adjustment_set_value(hadjustment, new_value)
               /\ UNCHANGED vadjustment
          ELSE /\ vadjustment' = zathura_adjustment_set_value(vadjustment, new_value)
               /\ UNCHANGED hadjustment
     /\ scrolled' = [n |-> n, t |-> t, value |-> adj.value, new_value |-> new_value]
     /\ UNCHANGED <<doc_vars, link_vars, search_vars, settings,
                    cur_page, jumplist, jumplist_cur, last>>

\* the places the current page can have when sc_scroll(n, ...) reads it: it
\* is read only with scroll-page-aware
ScrollPages(n) ==
  IF settings.scroll_page_aware THEN PageGeometries(scroll_adjustment(n)) ELSE {NoPage}

sc_scroll(n, t) == \E page \in ScrollPages(n) : sc_scroll_page(n, t, page)

----------------------------------------------------------------------------
(* sc_search: the command *)

\* the cursors after the page is left for npage: the reset of the page left
\* comes after the activation of the target
search_leave_late(page, npage, target_idx) ==
  [[search_current EXCEPT ![npage] = target_idx] EXCEPT ![page] = -1]

\* the cursors after the page is left for npage: "search-current" of the page
\* left is set to -1, later that of the target page to target_idx
search_leave(page, npage, target_idx) ==
  [[search_current EXCEPT ![page] = -1] EXCEPT ![npage] = target_idx]

\* the view is centred on the target: y and x are the positions computed from
\* the page's offset and the result's rectangle
search_show(y, x, search_hadjust) ==
  /\ vadjustment' = zathura_adjustment_set_value(vadjustment, y)
  /\ hadjustment' = IF search_hadjust
                      THEN zathura_adjustment_set_value(hadjustment, x)
                      ELSE hadjustment

\* the jumplist calls with the add before the page has changed
search_record_before_move(jl, page, npage) ==
  zathura_jumplist_add(zathura_jumplist_save(jl, page), page)

\* the jumplist calls of leaving a page: zathura_jumplist_save on the page
\* left, zathura_jumplist_add once npage is the current page
search_record(jl, page, npage) ==
  zathura_jumplist_add(zathura_jumplist_save(jl, page), npage)

sc_search(n) ==
  LET diff == search_diff(n)
  IN /\ last' = Ran("search", n, 0)
     /\ UNCHANGED <<doc_vars, link_vars, search_length, search_direction,
                    settings, update_page_number, scrolled>>
     /\ IF search_hits(diff) = {}
          THEN UNCHANGED <<vadjustment, hadjustment>>
          ELSE \E y \in {0, Px(1)} : search_show(y, Px(1), settings.search_hadjust)
     /\ IF search_hits(diff) = {}
          THEN UNCHANGED <<cur_page, jumplist, jumplist_cur, search_current>>
          ELSE LET page_id == search_first_hit(diff)
                   page == search_scan_page(diff, page_id)
                   current == search_current[page]
               IN IF diff = 1 /\ current < search_length[page] - 1
                    THEN /\ search_current' = [search_current EXCEPT ![page] = current + 1]
                         /\ UNCHANGED <<cur_page, jumplist, jumplist_cur>>
                  ELSE IF diff = -1 /\ current > 0
                    THEN /\ search_current' = [search_current EXCEPT ![page] = current - 1]
                         /\ UNCHANGED <<cur_page, jumplist, jumplist_cur>>
                  ELSE LET npage_id == search_inner(diff, page_id, 1)
                           npage == search_next_page(diff, page_id, npage_id)
                           target_idx == IF diff = 1 THEN 0 ELSE search_length[npage] - 1
                           j2 == search_record(JL, cur_page, npage)
                       IN /\ search_current' = search_leave(page, npage, target_idx)
                          /\ cur_page' = npage
                          /\ jumplist' = j2.list
                          /\ jumplist_cur' = j2.cur

----------------------------------------------------------------------------
(* Fractions.  The doubles that are quotients of integers (the scale) are
   held as fractions in lowest terms with a positive denominator. *)

RECURSIVE GCD(_, _)
GCD(a, b) == IF b = 0 THEN a ELSE GCD(b, a % b)

Abs(a) == IF a < 0 THEN -a ELSE a

Rat(n, d) ==
  LET g == GCD(Abs(n), Abs(d))
      sgn == IF d < 0 THEN -1 ELSE 1
  IN [num |-> sgn * (n \div g), den |-> sgn * (d \div g)]

RatLess(a, b) == a.num * b.den < b.num * a.den

RatIsZero(a) == a.num = 0

----------------------------------------------------------------------------
(* links.c: zathura_link_new and zathura_link_evaluate *)

ZATHURA_LINK_INVALID == "ZATHURA_LINK_INVALID"
ZATHURA_LINK_NONE == "ZATHURA_LINK_NONE"
ZATHURA_LINK_GOTO_DEST == "ZATHURA_LINK_GOTO_DEST"
ZATHURA_LINK_GOTO_REMOTE == "ZATHURA_LINK_GOTO_REMOTE"
ZATHURA_LINK_URI == "ZATHURA_LINK_URI"
ZATHURA_LINK_LAUNCH == "ZATHURA_LINK_LAUNCH"
ZATHURA_LINK_NAMED == "ZATHURA_LINK_NAMED"

ZATHURA_LINK_DESTINATION_UNKNOWN == "ZATHURA_LINK_DESTINATION_UNKNOWN"
ZATHURA_LINK_DESTINATION_XYZ == "ZATHURA_LINK_DESTINATION_XYZ"
ZATHURA_LINK_DESTINATION_FIT == "ZATHURA_LINK_DESTINATION_FIT"

\* the null pointer, where a string is expected
NULL == "(null)"

\* a zathura_link_target_t all of whose bytes are 0 (g_malloc0)
ZeroTarget ==
  [destination_type |-> ZATHURA_LINK_DESTINATION_UNKNOWN, value |-> NULL,
   page_number |-> 0, left |-> 0, top |-> 0, scale |-> Rat(0, 1)]

ZATHURA_ADJUST_NONE == "ZATHURA_ADJUST_NONE"
ZATHURA_ADJUST_BESTFIT == "ZATHURA_ADJUST_BESTFIT"
ZATHURA_ADJUST_WIDTH == "ZATHURA_ADJUST_WIDTH"
ZATHURA_ADJUST_INPUTBAR == "ZATHURA_ADJUST_INPUTBAR"

NoEffects ==
  [cmd |-> "-", opener_ok |-> TRUE, offset |-> [x |-> 0, y |-> 0],
   notify |-> 0, xdg_open |-> 0, spawn |-> 0, render_all |-> 0, opened |-> <<>>,
   view |-> [width |-> 0, height |-> 0], cell |-> [width |-> 0, height |-> 0],
   branch |-> "-", n |-> "-", count |-> [hi |-> 0, lo |-> 0], rotation0 |-> 0,
   before |-> [fullscreen |-> FALSE, pages_per_row |-> 0, first_page_column |-> 0,
               scale |-> [num |-> 0, den |-> 1]]]

NoPosition == [x |-> 0, y |-> 0, requested |-> FALSE]

NoLinkArgs == [type |-> ZATHURA_LINK_INVALID, position |-> 0, target |-> ZeroTarget]

NoLink == [type |-> ZATHURA_LINK_INVALID, position |-> 0, target |-> ZeroTarget,
           null |-> TRUE]

\* zathura_link_new without the default case: any other type gives a link
zathura_link_new_any_type(type, position, target) ==
  IF type \in {ZATHURA_LINK_GOTO_REMOTE, ZATHURA_LINK_URI,
               ZATHURA_LINK_LAUNCH, ZATHURA_LINK_NAMED}
    THEN IF target.value = NULL
           THEN NoLink
           ELSE [type |-> type, position |-> position,
                 target |-> [ZeroTarget EXCEPT !.value = target.value],
                 null |-> FALSE]
    ELSE [type |-> type, position |-> position, target |-> target, null |-> FALSE]

\* the result of zathura_link_new: the link, or NoLink for NULL
zathura_link_new(type, position, target) ==
  IF type \in {ZATHURA_LINK_NONE, ZATHURA_LINK_GOTO_DEST}
    THEN [type |-> type, position |-> position, target |-> target, null |-> FALSE]
  ELSE IF type \in {ZATHURA_LINK_GOTO_REMOTE, ZATHURA_LINK_URI,
                    ZATHURA_LINK_LAUNCH, ZATHURA_LINK_NAMED}
    THEN IF target.value = NULL
           THEN NoLink
           ELSE [type |-> type, position |-> position,
                 target |-> [ZeroTarget EXCEPT !.value = target.value],
                 null |-> FALSE]
  ELSE NoLink

zathura_link_get_type(l) == IF l.null THEN ZATHURA_LINK_INVALID ELSE l.type

zathura_link_get_position(l) == IF l.null THEN 0 ELSE l.position

zathura_link_get_target(l) == IF l.null THEN ZeroTarget ELSE l.target

\* a caller (the document's backend) constructs a link; the links of a page
\* are constructed before any of them is evaluated
link_new(type, position, target) ==
  /\ effects = NoEffects
  /\ link' = zathura_link_new(type, position, target)
  /\ link_args' = [type |-> type, position |-> position, target |-> target]
  /\ UNCHANGED <<doc_vars, scroll_vars, search_vars, cur_page, jumplist,
                 jumplist_cur, last, position_request, effects>>

\* zathura_document_get_page: whether the document has a page of this index
zathura_document_get_page(index) == index >= 0 /\ index < number_of_pages

\* the state a link handler works on: the document's scale and current page,
\* the position requested and what it has called so far
LinkState ==
  [scale |-> scale, page |-> cur_page, position |-> position_request,
   effects |-> NoEffects]

\* the path of file next to the document: g_build_filename(dir, file)
link_build_filename(file) == <<"dirname", file>>

g_path_is_absolute(path) == path # "" /\ path # NULL /\ SubSeq(path, 1, 1) = "/"

\* link_xdg_open asking the opener again after a failure
link_xdg_open_retry(st, path, opener_ok) ==
  LET e == [st.effects EXCEPT !.xdg_open = @ + 1, !.opened = path]
  IN [st EXCEPT !.effects =
        IF opener_ok THEN e ELSE [e EXCEPT !.xdg_open = @ + 1, !.notify = @ + 1]]

\* girara_xdg_open(path), answering opener_ok, and the notification of its
\* failure
link_xdg_open(st, path, opener_ok) ==
  LET e == [st.effects EXCEPT !.xdg_open = @ + 1, !.opened = path]
  IN [st EXCEPT !.effects = IF opener_ok THEN e ELSE [e EXCEPT !.notify = @ + 1]]

link_remote(st, file) ==
  IF file = NULL \/ ~document_loaded
    THEN st
    ELSE [st EXCEPT !.effects.spawn = @ + 1,
                    !.effects.opened = link_build_filename(file)]

link_launch(st, l, opener_ok) ==
  IF l.null \/ ~document_loaded THEN st
  ELSE IF l.target.value = NULL THEN st
  ELSE link_xdg_open(st,
         IF g_path_is_absolute(l.target.value)
           THEN <<l.target.value>>
           ELSE link_build_filename(l.target.value),
         opener_ok)

\* link_destination adding left and top whatever their value
link_destination_no_sentinel(target, offset, sc) ==
  IF target.destination_type = ZATHURA_LINK_DESTINATION_XYZ
    THEN [x |-> offset.x + (target.left * sc.num) \div sc.den,
          y |-> offset.y + (target.top * sc.num) \div sc.den]
    ELSE offset

\* the offset of the target page moved to the destination of an XYZ target
link_destination(target, offset, sc) ==
  IF target.destination_type = ZATHURA_LINK_DESTINATION_XYZ
    THEN [x |-> IF target.left # -1
                  THEN offset.x + (target.left * sc.num) \div sc.den
                  ELSE offset.x,
          y |-> IF target.top # -1
                  THEN offset.y + (target.top * sc.num) \div sc.den
                  ELSE offset.y]
    ELSE offset

\* case ZATHURA_LINK_GOTO_DEST asking for x and y whatever link-hadjust is
link_goto_dest_both(st, target, offset) ==
  IF target.destination_type # ZATHURA_LINK_DESTINATION_UNKNOWN
    THEN LET sc == IF ~RatIsZero(target.scale) THEN target.scale ELSE st.scale
             st1 == [st EXCEPT !.scale = sc]
         IN IF ~zathura_document_get_page(target.page_number)
              THEN st1
              ELSE LET dest == link_destination(target, offset, sc)
                   IN [st1 EXCEPT
                         !.page = page_set(st.page, target.page_number),
                         !.position = [x |-> dest.x, y |-> dest.y, requested |-> TRUE]]
    ELSE st

\* case ZATHURA_LINK_GOTO_DEST; offset is what page_calculate_offset gives
\* for the target page
link_goto_dest(st, target, offset) ==
  IF target.destination_type # ZATHURA_LINK_DESTINATION_UNKNOWN
    THEN LET sc == IF ~RatIsZero(target.scale) THEN target.scale ELSE st.scale
             st1 == [st EXCEPT !.scale = sc]
         IN IF ~zathura_document_get_page(target.page_number)
              THEN st1
              ELSE LET dest == link_destination(target, offset, sc)
                   IN [st1 EXCEPT
                         !.page = page_set(st.page, target.page_number),
                         !.position =
                           [x |-> IF settings.link_hadjust THEN dest.x ELSE -1,
                            y |-> dest.y, requested |-> TRUE]]
    ELSE st

link_evaluate(st, l, opener_ok, offset) ==
  IF ~document_loaded \/ l.null THEN st
  ELSE IF l.type = ZATHURA_LINK_GOTO_DEST THEN link_goto_dest(st, l.target, offset)
  ELSE IF l.type = ZATHURA_LINK_GOTO_REMOTE THEN link_remote(st, l.target.value)
  ELSE IF l.type = ZATHURA_LINK_URI THEN link_xdg_open(st, <<l.target.value>>, opener_ok)
  ELSE IF l.type = ZATHURA_LINK_LAUNCH THEN link_launch(st, l, opener_ok)
  ELSE st

\* zathura_link_evaluate on the link constructed last; opener_ok is the answer
\* of the external opener, offset the offset of the target page
zathura_link_evaluate(opener_ok, offset) ==
  LET st == link_evaluate(LinkState, link, opener_ok, offset)
  IN /\ scale' = st.scale
     /\ cur_page' = st.page
     /\ position_request' = st.position
     /\ effects' = [st.effects EXCEPT !.cmd = "evaluate", !.opener_ok = opener_ok,
                                      !.offset = offset]
     /\ UNCHANGED <<number_of_pages, document_loaded, window_vars, rotation, adjust_mode,
                    scroll_vars, search_vars, jumplist, jumplist_cur, last,
                    link, link_args>>

----------------------------------------------------------------------------
(* sc_adjust_window *)

\* zathura_get_document_size (design document, 4.1): the canvas of a grid of
\* equal cells, pages_per_row columns, padding between rows and columns
zathura_get_document_size(cell_height, cell_width) ==
  LET ncol == settings.pages_per_row
      nrow == (number_of_pages + ncol - 1) \div ncol
  IN [height |-> nrow * cell_height + (nrow - 1) * settings.page_padding,
      width |-> ncol * cell_width + (ncol - 1) * settings.page_padding]

\* the view after the scrollbar spacing has been taken from its width and
\* the height of a visible inputbar added to its height
adjust_view(allocation, spacing, inputbar) ==
  [width |-> allocation.width - spacing, height |-> allocation.height + inputbar]

\* the scale that makes a row of cells as wide as the view
adjust_width_scale(width, cell_width) ==
  Rat(width - (settings.pages_per_row - 1) * settings.page_padding,
      settings.pages_per_row * cell_width)

\* the width of the view once a vertical scrollbar has taken its part
adjust_scrollbar_width(view, document_height, vscrollbar) ==
  IF /\ settings.show_scrollbars
     /\ view.height < document_height
     /\ 0 < vscrollbar /\ vscrollbar < view.width
    THEN view.width - vscrollbar
    ELSE view.width

\* page_ratio < window_ratio, both quotients of lengths that are not negative
adjust_page_narrower(cell_height, document_width, view) ==
  RatLess([num |-> cell_height, den |-> document_width],
          [num |-> view.height, den |-> view.width])

\* BESTFIT comparing the view with one cell instead of the whole row
adjust_branch_one_cell(n, view, cell) ==
  IF \/ n = ZATHURA_ADJUST_WIDTH
     \/ /\ n = ZATHURA_ADJUST_BESTFIT
        /\ adjust_page_narrower(cell.height, cell.width, view)
    THEN "width"
  ELSE IF n = ZATHURA_ADJUST_BESTFIT THEN "height"
  ELSE "error_ret"

\* the branch taken by the if of lines 144-181
adjust_branch(n, view, cell) ==
  IF \/ n = ZATHURA_ADJUST_WIDTH
     \/ /\ n = ZATHURA_ADJUST_BESTFIT
        /\ adjust_page_narrower(cell.height,
             zathura_get_document_size(cell.height, cell.width).width, view)
    THEN "width"
  ELSE IF n = ZATHURA_ADJUST_BESTFIT THEN "height"
  ELSE "error_ret"

\* the scale set last by sc_adjust_window
adjust_scale(branch, view, cell, vscrollbar) ==
  IF branch = "width"
    THEN adjust_width_scale(
           adjust_scrollbar_width(view,
             zathura_get_document_size(cell.height, cell.width).height, vscrollbar),
           cell.width)
  ELSE IF branch = "height" THEN Rat(view.height, cell.height)
  ELSE Rat(1, 1)

\* the unsigned differences of the widths do not wrap: the view is at least as
\* wide as the scrollbar spacing and as the paddings of a row
adjust_no_wrap(allocation, spacing, vscrollbar) ==
  /\ allocation.width >= spacing
  /\ allocation.width - spacing >= (settings.pages_per_row - 1) * settings.page_padding
  /\ \/ vscrollbar = 0
     \/ allocation.width - spacing - vscrollbar
          >= (settings.pages_per_row - 1) * settings.page_padding

\* what sc_adjust_window with argument n leaves: the adjust mode, the
\* scale, the branch taken and the number of calls of render_all; cell is the
\* cell size of the document at scale 1, vscrollbar the width the vertical
\* scrollbar asks for (0 without one)
adjust_window(n, view, cell, vscrollbar) ==
  LET branch == adjust_branch(n, view, cell)
  IN IF ~document_loaded
       THEN [adjust_mode |-> adjust_mode, scale |-> scale,
             branch |-> "error_ret", render_all |-> 0]
     ELSE IF n = ZATHURA_ADJUST_NONE
       THEN [adjust_mode |-> n, scale |-> scale,
             branch |-> "error_ret", render_all |-> 0]
     ELSE [adjust_mode |-> n, scale |-> adjust_scale(branch, view, cell, vscrollbar),
           branch |-> branch,
           render_all |-> IF branch = "error_ret" THEN 0 ELSE 1]

\* sc_adjust_window with argument n; allocation is the size of the view
\* widget, inputbar the height of the inputbar (0 when hidden)
sc_adjust_window(n, allocation, spacing, inputbar, cell, vscrollbar) ==
  LET view == adjust_view(allocation, spacing, inputbar)
      adjusted == adjust_window(n, view, cell, vscrollbar)
  IN /\ effects = NoEffects
     /\ adjust_no_wrap(allocation, spacing, vscrollbar)
     /\ adjust_mode' = adjusted.adjust_mode
     /\ scale' = adjusted.scale
     /\ effects' = [effects EXCEPT !.cmd = "adjust_window", !.view = view, !.cell = cell,
                                   !.branch = adjusted.branch,
                                   !.render_all = adjusted.render_all]
     /\ UNCHANGED <<number_of_pages, document_loaded, window_vars, rotation, cur_page,
                    scroll_vars, search_vars, jumplist, jumplist_cur, last,
                    link, link_args, position_request>>

----------------------------------------------------------------------------
(* sc_rotate *)

\* the unsigned product k * a of an int 0 <= k < 2^15 and an unsigned a
U32Times(k, a) ==
  LET lo == k * a.lo
  IN [hi |-> (k * a.hi + (lo \div 65536)) % 65536, lo |-> lo % 65536]

rotate_angle(n) == IF n = ROTATE_CCW THEN 270 ELSE 90

\* (rotation + angle * t) % 360 in unsigned int, t being 1 for the count 0
rotate_rotation(rot, n, t) ==
  LET count == IF U32IsZero(t) THEN U32Of(1) ELSE t
  IN U32Mod(U32Add(U32Of(rot), U32Times(rotate_angle(n), count)), 360)

\* zathura_document_set_rotation: the document keeps the value it is given
zathura_document_set_rotation(rot) == rot

\* sc_rotate with argument n and count t; the other inputs are those of the
\* sc_adjust_window it calls with the adjust mode of the document
sc_rotate(n, t, allocation, spacing, inputbar, cell, vscrollbar) ==
  LET view == adjust_view(allocation, spacing, inputbar)
      adjusted == adjust_window(adjust_mode, view, cell, vscrollbar)
  IN /\ document_loaded
     /\ adjust_no_wrap(allocation, spacing, vscrollbar)
     /\ rotation' = zathura_document_set_rotation(rotate_rotation(rotation, n, t))
     /\ adjust_mode' = adjusted.adjust_mode
     /\ scale' = adjusted.scale
     /\ effects' = [NoEffects EXCEPT !.cmd = "rotate", !.n = n, !.count = t,
                                     !.rotation0 = rotation,
                                     !.view = view, !.cell = cell,
                                     !.branch = adjusted.branch,
                                     !.render_all = adjusted.render_all + 1]
     /\ UNCHANGED <<number_of_pages, document_loaded, window_vars, cur_page,
                    scroll_vars, search_vars, jumplist, jumplist_cur, last,
                    link, link_args, position_request>>

----------------------------------------------------------------------------
(* sc_zoom.  The floats (the scale, the step, the limits) are held as
   fractions; zoom-step, zoom-min and zoom-max are percentages. *)

RatAdd(a, b) == Rat(a.num * b.den + b.num * a.den, a.den * b.den)

\* the scale sc_zoom sets first, old_zoom being the scale it reads
zoom_new_scale(n, t, old_zoom) ==
  LET nt == IF U32IsZero(t) THEN 1 ELSE ToInt(t)
      zoom_step == Rat(settings.zoom_step * nt, 100)
  IN IF n = ZOOM_IN THEN RatAdd(old_zoom, zoom_step)
     ELSE IF n = ZOOM_OUT THEN RatAdd(old_zoom, Rat(-zoom_step.num, zoom_step.den))
     ELSE IF n = ZOOM_SPECIFIC
       THEN IF U32IsZero(t) THEN Rat(1, 1) ELSE Rat(t.hi * 65536 + t.lo, 100)
     ELSE Rat(1, 1)

\* the zoom limitations with the upper one left out
zoom_limit_below(sc) ==
  LET zoom_min == Rat(settings.zoom_min, 100)
  IN IF RatLess(sc, zoom_min) THEN zoom_min ELSE sc

\* the zoom limitations: the scale is raised to zoom_min, else lowered to
\* zoom_max
zoom_limit(sc) ==
  LET zoom_min == Rat(settings.zoom_min, 100)
      zoom_max == Rat(settings.zoom_max, 100)
  IN IF RatLess(sc, zoom_min) THEN zoom_min
     ELSE IF RatLess(zoom_max, sc) THEN zoom_max
     ELSE sc

sc_zoom(n, t) ==
  /\ document_loaded
  /\ adjust_mode' = ZATHURA_ADJUST_NONE
  /\ scale' = zoom_limit(zoom_new_scale(n, t, scale))
  /\ effects' = [NoEffects EXCEPT !.cmd = "zoom", !.n = n, !.count = t,
                                  !.render_all = 1]
  /\ UNCHANGED <<number_of_pages, document_loaded, window_vars, rotation, cur_page,
                 scroll_vars, search_vars, jumplist, jumplist_cur, last,
                 link, link_args, position_request>>

----------------------------------------------------------------------------
(* sc_toggle_fullscreen.  girara_setting_get and girara_setting_set read and
   store the value of a setting; girara_mode_set stores the mode. *)

\* the height zathura_get_document_size gives a document shown one page per
\* row, as it is once line 1273 has set pages-per-row to 1
fullscreen_document_height(cell_height) ==
  number_of_pages * cell_height + (number_of_pages - 1) * settings.page_padding

\* the scale the sc_adjust_window of line 1280 leaves: BESTFIT with one page
\* per row, so that a row is one cell wide and has no padding
fullscreen_scale(view, cell, vscrollbar) ==
  IF adjust_page_narrower(cell.height, cell.width, view)
    THEN Rat(adjust_scrollbar_width(view, fullscreen_document_height(cell.height),
                                    vscrollbar),
             cell.width)
    ELSE Rat(view.height, cell.height)

\* what the statics hold and what the settings, the scale, the adjust mode
\* and the mode are after lines 1265-1291: fullscreen is entered
fullscreen_enter(view, cell, vscrollbar) ==
  [statics |-> [fullscreen |-> TRUE,
                pages_per_row |-> settings.pages_per_row,
                first_page_column |-> settings.first_page_column,
                zoom |-> scale],
   settings |-> [settings EXCEPT !.pages_per_row = 1],
   scale |-> fullscreen_scale(view, cell, vscrollbar),
   adjust_mode |-> ZATHURA_ADJUST_BESTFIT,
   mode |-> "fullscreen"]

\* fullscreen left without the scale being set back
fullscreen_leave_scaled ==
  [statics |-> [statics EXCEPT !.fullscreen = FALSE],
   settings |-> [settings EXCEPT !.pages_per_row = statics.pages_per_row,
                                 !.first_page_column = statics.first_page_column],
   scale |-> scale,
   adjust_mode |-> adjust_mode,
   mode |-> "normal"]

\* the same after lines 1241-1263: fullscreen is left
fullscreen_leave ==
  [statics |-> [statics EXCEPT !.fullscreen = FALSE],
   settings |-> [settings EXCEPT !.pages_per_row = statics.pages_per_row,
                                 !.first_page_column = statics.first_page_column],
   scale |-> statics.zoom,
   adjust_mode |-> adjust_mode,
   mode |-> "normal"]

\* sc_toggle_fullscreen; allocation, spacing, inputbar, cell and vscrollbar
\* are what the sc_adjust_window it calls finds, as in sc_adjust_window
sc_toggle_fullscreen(allocation, spacing, inputbar, cell, vscrollbar) ==
  LET view == adjust_view(allocation, spacing, inputbar)
      st == IF statics.fullscreen THEN fullscreen_leave
            ELSE fullscreen_enter(view, cell, vscrollbar)
      before == [fullscreen |-> statics.fullscreen,
                 pages_per_row |-> settings.pages_per_row,
                 first_page_column |-> settings.first_page_column,
                 scale |-> scale]
  IN /\ allocation.width >= spacing
     /\ IF ~document_loaded
          THEN /\ effects' = [NoEffects EXCEPT !.cmd = "toggle_fullscreen",
                                               !.notify = 1, !.before = before]
               /\ UNCHANGED <<statics, settings, scale, adjust_mode, mode>>
          ELSE /\ statics' = st.statics
               /\ settings' = st.settings
               /\ scale' = st.scale
               /\ adjust_mode' = st.adjust_mode
               /\ mode' = st.mode
               /\ effects' = [NoEffects EXCEPT !.cmd = "toggle_fullscreen",
                                               !.render_all = 1, !.before = before]
     /\ UNCHANGED <<number_of_pages, document_loaded, rotation, cur_page,
                    vadjustment, hadjustment, update_page_number, scrolled,
                    search_vars, jumplist, jumplist_cur, last,
                    link, link_args, position_request>>

----------------------------------------------------------------------------

\* the settings as sc_scroll, sc_search and zathura_link_evaluate initialise
\* them before girara_setting_get
DefaultSettings ==
  [scroll_step |-> 40, scroll_hstep |-> -1, scroll_full_overlap |-> 0,
   scroll_page_aware |-> FALSE, scroll_wrap |-> FALSE, page_padding |-> 1,
   search_hadjust |-> TRUE, link_hadjust |-> TRUE,
   advance_pages_per_row |-> FALSE, pages_per_row |-> 1,
   show_scrollbars |-> FALSE,
   zoom_step |-> 1, zoom_min |-> 10, zoom_max |-> 1000,
   first_page_column |-> 1]

\* the statics of sc_toggle_fullscreen as lines 1235-1238 initialise them
NoFullscreen ==
  [fullscreen |-> FALSE, pages_per_row |-> 1, first_page_column |-> 1,
   zoom |-> Rat(1, 1)]

\* a window in normal mode that was never made fullscreen
WindowIdle ==
  /\ mode = "normal"
  /\ statics = NoFullscreen

NotScrolled == [n |-> "-", t |-> 0, value |-> 0, new_value |-> 0]

\* a view that shows the whole canvas, never scrolled
ScrollIdle ==
  /\ vadjustment = Adjustment(0, Px(2), Px(2))
  /\ hadjustment = Adjustment(0, Px(2), Px(2))
  /\ settings = DefaultSettings
  /\ update_page_number = FALSE
  /\ scrolled = NotScrolled

\* a loaded document at scale 1, not rotated, no link read yet
ViewerIdle ==
  /\ document_loaded = TRUE
  /\ scale = Rat(1, 1)
  /\ rotation = 0
  /\ WindowIdle
  /\ adjust_mode = ZATHURA_ADJUST_NONE
  /\ link = NoLink
  /\ link_args = NoLinkArgs
  /\ position_request = NoPosition
  /\ effects = NoEffects

Init ==
  /\ number_of_pages \in 1..MaxPages
  /\ cur_page \in 0..(number_of_pages - 1)
  /\ jumplist = <<>>
  /\ jumplist_cur = 0
  /\ last = Ran("open", NO_ARG, 0)
  /\ search_length = [p \in Pages |-> IF p = 0 THEN 1 ELSE 0]
  /\ search_current = [p \in Pages |-> IF p = 0 THEN 0 ELSE -1]
  /\ search_direction = FORWARD
  /\ ScrollIdle
  /\ ViewerIdle

Next ==
  \/ \E n \in {TOP, BOTTOM, NO_ARG} : sc_goto(n, 0, 0)
  \/ \E t \in 1..(MaxPages + 1) : sc_goto(NO_ARG, t, 0)
  \/ \E page_offset \in 1..MaxPageOffset : sc_goto(NO_ARG, 1, page_offset)
  \/ \E n \in {FORWARD, BACKWARD, NO_ARG} : sc_jumplist(n)
  \/ \E n \in {FORWARD, BACKWARD, NO_ARG} : sc_bisect(n, 0)
  \/ \E t \in 1..(MaxPages + 1) : sc_bisect(FORWARD, t)
  \/ \E n \in {FORWARD, BACKWARD} : sc_search(n)
  \/ \E n \in {NEXT, PREVIOUS}, wrap \in BOOLEAN : sc_navigate(n, U32Of(1), wrap, FALSE, 1)

Spec == Init /\ [][Next]_vars

----------------------------------------------------------------------------
(* Search navigation: a document after a search, with the result counts it
   found and at most one page holding the active cursor. *)

ActiveCursors(f) == {p \in DOMAIN f : f[p] # -1}

InitSearch ==
  /\ number_of_pages \in 1..SearchMaxPages
  /\ cur_page \in Pages
  /\ jumplist = <<>>
  /\ jumplist_cur = 0
  /\ last = Ran("open", NO_ARG, 0)
  /\ search_length \in [Pages -> 0..MaxResults]
  /\ search_current \in [Pages -> -1..(MaxResults - 1)]
  /\ \A p \in Pages : search_current[p] < search_length[p]
  /\ Cardinality(ActiveCursors(search_current)) <= 1
  /\ search_direction \in {FORWARD, BACKWARD}
  /\ ScrollIdle
  /\ ViewerIdle

NextSearch == \E n \in {FORWARD, BACKWARD} : sc_search(n)

SpecSearch == InitSearch /\ [][NextSearch]_vars

----------------------------------------------------------------------------
(* Scrolling: a one-page document in a view of any small geometry, at any
   scroll position, under settings that vary the steps, the full-page overlap
   and padding, or the page-aware snapping; and the view of 500 pixels on a
   canvas of 1010 under the default settings. *)

ScrollSettings ==
  {[DefaultSettings EXCEPT !.scroll_step = s, !.scroll_hstep = h, !.scroll_wrap = w] :
     s \in {1, 2}, h \in {-1, 3}, w \in BOOLEAN}
  \cup
  {[DefaultSettings EXCEPT !.scroll_full_overlap = o, !.page_padding = p, !.scroll_wrap = w] :
     o \in {0, 1}, p \in {0, 1}, w \in BOOLEAN}
  \cup
  {[DefaultSettings EXCEPT !.scroll_page_aware = TRUE, !.page_padding = p, !.scroll_wrap = w] :
     p \in {1, 2}, w \in BOOLEAN}

Adjustments ==
  {Adjustment(v, Px(size), Px(size + over)) :
     v \in 0..Px(MaxOverhang), size \in 1..MaxViewSize, over \in 0..MaxOverhang}

InitScroll ==
  /\ number_of_pages = 1
  /\ cur_page = 0
  /\ jumplist = <<>>
  /\ jumplist_cur = 0
  /\ last = Ran("open", NO_ARG, 0)
  /\ search_length = [p \in Pages |-> 0]
  /\ search_current = [p \in Pages |-> -1]
  /\ search_direction = FORWARD
  /\ update_page_number = FALSE
  /\ scrolled = NotScrolled
  /\ ViewerIdle
  /\ \/ /\ settings \in ScrollSettings
        /\ vadjustment \in {a \in Adjustments : a.value <= scroll_max(a)}
        /\ hadjustment = Adjustment(0, Px(2), Px(3))
     \/ /\ settings = DefaultSettings
        /\ vadjustment = Adjustment(0, Px(500), Px(1010))
        /\ hadjustment = Adjustment(0, Px(500), Px(500))

NextScroll ==
  \/ \E n \in {UP, DOWN, LEFT, RIGHT}, t \in 0..MaxCount : sc_scroll(n, t)
  \/ \E n \in {FULL_UP, FULL_DOWN, FULL_LEFT, FULL_RIGHT,
               HALF_UP, HALF_DOWN, HALF_LEFT, HALF_RIGHT} : sc_scroll(n, 0)
  \/ \E n \in {TOP, BOTTOM, NO_ARG} : sc_scroll(n, 0)

SpecScroll == InitScroll /\ [][NextScroll]_vars

----------------------------------------------------------------------------
(* Links: a document of one or two pages at some scale, whose backend
   constructs links of every type, which are then evaluated. *)

LinkValues == {NULL, "", "a.pdf", "/a.pdf"}

DestinationTargets ==
  [destination_type : {ZATHURA_LINK_DESTINATION_UNKNOWN, ZATHURA_LINK_DESTINATION_XYZ,
                       ZATHURA_LINK_DESTINATION_FIT},
   value : {NULL, "a.pdf"},
   page_number : 0..MaxLinkPage,
   left : {-1, 2}, top : {-1, 4},
   scale : {Rat(0, 1), Rat(1, 2), Rat(2, 1)}]

ValueTargets ==
  {[destination_type |-> ZATHURA_LINK_DESTINATION_XYZ, value |-> v,
    page_number |-> 1, left |-> 2, top |-> 4, scale |-> Rat(2, 1)] : v \in LinkValues}

\* the arguments zathura_link_new is called with; "ZATHURA_LINK_42" stands
\* for a type value that is none of the enumerators
LinkArgs ==
  ([type : {ZATHURA_LINK_GOTO_DEST}, position : {7}, target : DestinationTargets])
  \cup
  ([type : {ZATHURA_LINK_NONE, ZATHURA_LINK_GOTO_REMOTE, ZATHURA_LINK_URI,
            ZATHURA_LINK_LAUNCH, ZATHURA_LINK_NAMED,
            ZATHURA_LINK_INVALID, "ZATHURA_LINK_42"},
    position : {7}, target : ValueTargets])

InitLink ==
  /\ number_of_pages \in 1..2
  /\ cur_page \in Pages
  /\ jumplist \in {<<>>, <<Jump(0)>>}
  /\ jumplist_cur = 0
  /\ last = Ran("open", NO_ARG, 0)
  /\ search_length = [p \in Pages |-> 0]
  /\ search_current = [p \in Pages |-> -1]
  /\ search_direction = FORWARD
  /\ ScrollIdle
  /\ document_loaded \in BOOLEAN
  /\ scale \in {Rat(1, 1), Rat(3, 2)}
  /\ rotation = 0
  /\ WindowIdle
  /\ adjust_mode = ZATHURA_ADJUST_NONE
  /\ link = NoLink
  /\ link_args = NoLinkArgs
  /\ position_request = NoPosition
  /\ effects = NoEffects

NextLink ==
  \/ \E a \in LinkArgs : link_new(a.type, a.position, a.target)
  \/ \E opener_ok \in BOOLEAN, offset \in {[x |-> 0, y |-> 0], [x |-> 3, y |-> 5]} :
       zathura_link_evaluate(opener_ok, offset)

SpecLink == InitLink /\ [][NextLink]_vars

----------------------------------------------------------------------------
(* GotoDestination links constructed and evaluated with link-hadjust on and
   off *)

InitLinkGoto ==
  /\ number_of_pages \in 1..2
  /\ cur_page \in Pages
  /\ jumplist = <<>>
  /\ jumplist_cur = 0
  /\ last = Ran("open", NO_ARG, 0)
  /\ search_length = [p \in Pages |-> 0]
  /\ search_current = [p \in Pages |-> -1]
  /\ search_direction = FORWARD
  /\ vadjustment = Adjustment(0, Px(2), Px(2))
  /\ hadjustment = Adjustment(0, Px(2), Px(2))
  /\ settings \in {[DefaultSettings EXCEPT !.link_hadjust = h] : h \in BOOLEAN}
  /\ update_page_number = FALSE
  /\ scrolled = NotScrolled
  /\ document_loaded = TRUE
  /\ scale \in {Rat(1, 1), Rat(3, 2)}
  /\ rotation = 0
  /\ WindowIdle
  /\ adjust_mode = ZATHURA_ADJUST_NONE
  /\ link = NoLink
  /\ link_args = NoLinkArgs
  /\ position_request = NoPosition
  /\ effects = NoEffects

NextLinkGoto ==
  \/ \E target \in DestinationTargets : link_new(ZATHURA_LINK_GOTO_DEST, 7, target)
  \/ \E offset \in {[x |-> 0, y |-> 0], [x |-> 3, y |-> 5]} :
       zathura_link_evaluate(TRUE, offset)

SpecLinkGoto == InitLinkGoto /\ [][NextLinkGoto]_vars

----------------------------------------------------------------------------
(* sc_zoom alone, from scales inside and outside the limits; the counts of
   ZOOM_SPECIFIC are the percentages below 2^16 *)

ZoomSettings ==
  {[DefaultSettings EXCEPT !.zoom_step = s, !.zoom_min = a, !.zoom_max = b] :
     s \in {1, 10, 150}, a \in {10, 50}, b \in {10, 50, 200}}

ZoomPercentages == {U32Of(k) : k \in 0..MaxCount} \cup {U32Of(25), U32Of(300)}

InitZoom ==
  /\ number_of_pages \in 1..2
  /\ cur_page = 0
  /\ jumplist = <<>>
  /\ jumplist_cur = 0
  /\ last = Ran("open", NO_ARG, 0)
  /\ search_length = [p \in Pages |-> 0]
  /\ search_current = [p \in Pages |-> -1]
  /\ search_direction = FORWARD
  /\ vadjustment = Adjustment(0, Px(2), Px(2))
  /\ hadjustment = Adjustment(0, Px(2), Px(2))
  /\ settings \in ZoomSettings
  /\ update_page_number = FALSE
  /\ scrolled = NotScrolled
  /\ document_loaded = TRUE
  /\ scale \in {Rat(1, 1), Rat(3, 2), Rat(1, 20), Rat(5, 1)}
  /\ rotation = 0
  /\ WindowIdle
  /\ adjust_mode \in {ZATHURA_ADJUST_NONE, ZATHURA_ADJUST_BESTFIT,
                      ZATHURA_ADJUST_WIDTH, ZATHURA_ADJUST_INPUTBAR}
  /\ link = NoLink
  /\ link_args = NoLinkArgs
  /\ position_request = NoPosition
  /\ effects = NoEffects

NextZoom ==
  \/ \E n \in {ZOOM_IN, ZOOM_OUT, NO_ARG}, t \in Counts : sc_zoom(n, t)
  \/ \E t \in ZoomPercentages : sc_zoom(ZOOM_SPECIFIC, t)

SpecZoom == InitZoom /\ [][NextZoom]_vars

----------------------------------------------------------------------------
(* sc_navigate alone, with every count and the settings it reads *)

NavigateSettings ==
  {[DefaultSettings EXCEPT !.scroll_wrap = w, !.advance_pages_per_row = a,
                           !.pages_per_row = ppr] :
     w \in BOOLEAN, a \in BOOLEAN, ppr \in 1..MaxPagesPerRow}

InitNavigate ==
  /\ number_of_pages \in 1..MaxPages
  /\ cur_page \in Pages
  /\ jumplist = <<>>
  /\ jumplist_cur = 0
  /\ last = Ran("open", NO_ARG, 0)
  /\ search_length = [p \in Pages |-> 0]
  /\ search_current = [p \in Pages |-> -1]
  /\ search_direction = FORWARD
  /\ vadjustment = Adjustment(0, Px(2), Px(2))
  /\ hadjustment = Adjustment(0, Px(2), Px(2))
  /\ settings \in NavigateSettings
  /\ update_page_number = FALSE
  /\ scrolled = NotScrolled
  /\ ViewerIdle

NextNavigate ==
  \E n \in {NEXT, PREVIOUS}, t \in Counts :
    sc_navigate(n, t, settings.scroll_wrap, settings.advance_pages_per_row,
                settings.pages_per_row)

SpecNavigate == InitNavigate /\ [][NextNavigate]_vars

----------------------------------------------------------------------------
(* sc_adjust_window alone, on every small view and cell *)

AdjustSettings ==
  {[DefaultSettings EXCEPT !.pages_per_row = ppr, !.page_padding = p,
                           !.show_scrollbars = sb] :
     ppr \in 1..MaxPagesPerRow, p \in {0, 1}, sb \in BOOLEAN}

Sizes(lo, hi) == {[width |-> w, height |-> h] : w \in lo..hi, h \in lo..hi}

InitAdjust ==
  /\ number_of_pages \in 1..2
  /\ cur_page = 0
  /\ jumplist = <<>>
  /\ jumplist_cur = 0
  /\ last = Ran("open", NO_ARG, 0)
  /\ search_length = [p \in Pages |-> 0]
  /\ search_current = [p \in Pages |-> -1]
  /\ search_direction = FORWARD
  /\ vadjustment = Adjustment(0, Px(2), Px(2))
  /\ hadjustment = Adjustment(0, Px(2), Px(2))
  /\ settings \in AdjustSettings
  /\ update_page_number = FALSE
  /\ scrolled = NotScrolled
  /\ document_loaded \in BOOLEAN
  /\ scale \in {Rat(1, 1), Rat(3, 2)}
  /\ rotation = 0
  /\ WindowIdle
  /\ adjust_mode \in {ZATHURA_ADJUST_NONE, ZATHURA_ADJUST_WIDTH}
  /\ link = NoLink
  /\ link_args = NoLinkArgs
  /\ position_request = NoPosition
  /\ effects = NoEffects

NextAdjust ==
  \E n \in {ZATHURA_ADJUST_NONE, ZATHURA_ADJUST_BESTFIT,
            ZATHURA_ADJUST_WIDTH, ZATHURA_ADJUST_INPUTBAR},
     allocation \in Sizes(1, MaxViewSize), spacing \in {0, 1}, inputbar \in {0, 1},
     cell \in Sizes(1, MaxCell), vscrollbar \in {0, 1} :
    sc_adjust_window(n, allocation, spacing, inputbar, cell, vscrollbar)

SpecAdjust == InitAdjust /\ [][NextAdjust]_vars

----------------------------------------------------------------------------
(* sc_toggle_fullscreen on every small view and cell, the inputbar hidden,
   between zooms to a given percentage *)

FullscreenSettings ==
  {[DefaultSettings EXCEPT !.pages_per_row = ppr, !.first_page_column = fpc,
                           !.show_scrollbars = sb] :
     ppr \in 1..MaxPagesPerRow, fpc \in 1..MaxPagesPerRow, sb \in BOOLEAN}

InitFullscreen ==
  /\ number_of_pages \in 1..2
  /\ cur_page = 0
  /\ jumplist = <<>>
  /\ jumplist_cur = 0
  /\ last = Ran("open", NO_ARG, 0)
  /\ search_length = [p \in Pages |-> 0]
  /\ search_current = [p \in Pages |-> -1]
  /\ search_direction = FORWARD
  /\ vadjustment = Adjustment(0, Px(2), Px(2))
  /\ hadjustment = Adjustment(0, Px(2), Px(2))
  /\ settings \in FullscreenSettings
  /\ update_page_number = FALSE
  /\ scrolled = NotScrolled
  /\ document_loaded \in BOOLEAN
  /\ scale \in {Rat(1, 1), Rat(3, 2)}
  /\ rotation = 0
  /\ WindowIdle
  /\ adjust_mode \in {ZATHURA_ADJUST_NONE, ZATHURA_ADJUST_WIDTH}
  /\ link = NoLink
  /\ link_args = NoLinkArgs
  /\ position_request = NoPosition
  /\ effects = NoEffects

NextFullscreen ==
  \/ \E allocation \in Sizes(1, MaxViewSize), spacing \in {0, 1},
        cell \in Sizes(1, MaxCell), vscrollbar \in {0, 1} :
       sc_toggle_fullscreen(allocation, spacing, 0, cell, vscrollbar)
  \/ \E t \in {U32Of(50), U32Of(200)} : sc_zoom(ZOOM_SPECIFIC, t)

SpecFullscreen == InitFullscreen /\ [][NextFullscreen]_vars

----------------------------------------------------------------------------
(* sc_rotate alone, with every count *)

InitRotate ==
  /\ number_of_pages \in 1..2
  /\ cur_page \in Pages
  /\ jumplist = <<>>
  /\ jumplist_cur = 0
  /\ last = Ran("open", NO_ARG, 0)
  /\ search_length = [p \in Pages |-> 0]
  /\ search_current = [p \in Pages |-> -1]
  /\ search_direction = FORWARD
  /\ ScrollIdle
  /\ document_loaded = TRUE
  /\ scale = Rat(1, 1)
  /\ rotation = 0
  /\ WindowIdle
  /\ adjust_mode \in {ZATHURA_ADJUST_NONE, ZATHURA_ADJUST_BESTFIT}
  /\ link = NoLink
  /\ link_args = NoLinkArgs
  /\ position_request = NoPosition
  /\ effects = NoEffects

NextRotate ==
  \E n \in {ROTATE_CW, ROTATE_CCW}, t \in Counts,
     cell \in {[width |-> 1, height |-> 2], [width |-> 2, height |-> 1]} :
    sc_rotate(n, t, [width |-> 2, height |-> 2], 0, 0, cell, 0)

SpecRotate == InitRotate /\ [][NextRotate]_vars

----------------------------------------------------------------------------
(* sc_bisect alone, in both directions, from every short jumplist *)

\* the jumplists of len entries on pages of the document
Jumplists(len) == [1..len -> {Jump(p) : p \in Pages}]

InitBisect ==
  /\ number_of_pages \in 1..MaxPages
  /\ cur_page \in Pages
  /\ \E len \in 0..MaxInitJumps :
       /\ jumplist \in Jumplists(len)
       /\ jumplist_cur \in IF len = 0 THEN {0} ELSE 0..(len - 1)
  /\ last = Ran("open", NO_ARG, 0)
  /\ search_length = [p \in Pages |-> 0]
  /\ search_current = [p \in Pages |-> -1]
  /\ search_direction = FORWARD
  /\ ScrollIdle
  /\ ViewerIdle

NextBisect ==
  \E n \in {FORWARD, BACKWARD}, t \in 0..(MaxPages + 1) : sc_bisect(n, t)

SpecBisect == InitBisect /\ [][NextBisect]_vars

----------------------------------------------------------------------------
(* One sc_search in a document after a search, from a jumplist of any length
   up to its capacity with its cursor anywhere *)

AdvanceJumps(len) == [k \in 1..len |-> Jump((k - 1) % number_of_pages)]

InitAdvance ==
  /\ number_of_pages \in 1..SearchMaxPages
  /\ cur_page \in Pages
  /\ \E len \in 0..JumplistMaxSize :
       /\ jumplist = AdvanceJumps(len)
       /\ jumplist_cur \in (IF len = 0 THEN {0} ELSE 0..(len - 1))
  /\ last = Ran("open", NO_ARG, 0)
  /\ search_length \in [Pages -> 0..MaxResults]
  /\ search_current \in [Pages -> -1..(MaxResults - 1)]
  /\ \A p \in Pages : search_current[p] < search_length[p]
  /\ Cardinality(ActiveCursors(search_current)) <= 1
  /\ search_direction \in {FORWARD, BACKWARD}
  /\ ScrollIdle
  /\ ViewerIdle

NextAdvance ==
  /\ last.cmd = "open"
  /\ \E n \in {FORWARD, BACKWARD} : sc_search(n)

SpecAdvance == InitAdvance /\ [][NextAdvance]_vars

----------------------------------------------------------------------------
(* sc_scroll with scroll-page-aware, once, from every position of the view
   and with every place of the current page *)

SnapSettings ==
  {[DefaultSettings EXCEPT !.scroll_page_aware = TRUE, !.scroll_step = 1,
                           !.page_padding = p, !.scroll_wrap = w,
                           !.scroll_full_overlap = o] :
     p \in 0..2, w \in BOOLEAN, o \in {0, 1}}

SnapAdjustments == {a \in Adjustments : a.value <= scroll_max(a)}

InitSnap ==
  /\ number_of_pages = 1
  /\ cur_page = 0
  /\ jumplist = <<>>
  /\ jumplist_cur = 0
  /\ last = Ran("open", NO_ARG, 0)
  /\ search_length = [p \in Pages |-> 0]
  /\ search_current = [p \in Pages |-> -1]
  /\ search_direction = FORWARD
  /\ update_page_number = FALSE
  /\ scrolled = NotScrolled
  /\ ViewerIdle
  /\ settings \in SnapSettings
  /\ vadjustment \in SnapAdjustments
  /\ hadjustment \in {a \in SnapAdjustments : a.page_size = Px(2) /\ a.upper = Px(4)}

\* one sc_scroll from each of the initial states
NextSnap ==
  /\ scrolled = NotScrolled
  /\ \/ \E n \in {FULL_UP, FULL_DOWN, FULL_LEFT, FULL_RIGHT,
                  HALF_UP, HALF_DOWN, HALF_LEFT, HALF_RIGHT} : sc_scroll(n, 0)
     \/ \E n \in {UP, DOWN, LEFT, RIGHT}, t \in 0..1 : sc_scroll(n, t)
     \/ \E n \in {TOP, BOTTOM} : sc_scroll(n, 0)

SpecSnap == InitSnap /\ [][NextSnap]_vars

----------------------------------------------------------------------------
(* Properties of the jumplist, checked under Spec *)

Cut(l) == l.len0 > 0 /\ l.cur0 < l.len0 - 1
JumplistCmd(l, n) == l.cmd = "jumplist" /\ l.n = n

\* C1: a save() executed while the cursor is before the last index discards
\* every entry after the cursor: after sc_jumplist(FORWARD) from such a state
\* (save, then forward) the cursor entry is the position saved, it is the last
\* entry, forward() did not move the cursor and the page shown is the same;
\* after sc_jumplist(BACKWARD) and sc_goto from such a state the entry saved
\* at the old cursor is the last one, resp. the one before the entry added.
C1_BranchDiscarded ==
  Cut(last) =>
    /\ JumplistCmd(last, FORWARD) =>
         /\ jumplist_cur = last.cur0
         /\ Len(jumplist) = jumplist_cur + 1
         /\ zathura_jumplist_current(JL) = Jump(last.page0)
         /\ zathura_jumplist_forward(JL) = JL
         /\ cur_page = last.page0
    /\ JumplistCmd(last, BACKWARD) =>
         /\ Len(jumplist) = last.cur0 + 1
         /\ jumplist[last.cur0 + 1] = Jump(last.page0)
    /\ last.cmd = "goto" =>
         /\ Len(jumplist) = last.cur0 + 2
         /\ jumplist[last.cur0 + 1] = Jump(last.page0)
         /\ jumplist_cur = last.cur0 + 1

C1_Witness ==
  /\ JumplistCmd(last, FORWARD) /\ Cut(last)
  /\ last.len0 = 3 /\ last.cur0 = 1
  /\ Len(jumplist) = 2 /\ jumplist_cur = 1
  /\ jumplist[2] = Jump(cur_page) /\ jumplist[1] # jumplist[2]

\* C2: the jumplist is empty only as long as no command that saves or adds
\* has run (the command run last started with an empty list and was none of
\* them); while it is not empty the cursor is an index of it and current() is
\* the entry there; current() is none only while the list is empty.
C2_CursorInvariant ==
  /\ jumplist = <<>> =>
       /\ jumplist_cur = 0
       /\ zathura_jumplist_current(JL) = NoJump
       /\ last.len0 = 0
       /\ last.cmd \notin {"goto", "bisect"}
       /\ ~(last.cmd = "jumplist" /\ last.n \in {FORWARD, BACKWARD})
       /\ ~(last.cmd = "search" /\ cur_page # last.page0)
  /\ jumplist # <<>> =>
       /\ jumplist_cur \in 0..(Len(jumplist) - 1)
       /\ zathura_jumplist_current(JL) # NoJump
       /\ zathura_jumplist_current(JL) = jumplist[jumplist_cur + 1]

C2_Witness ==
  /\ last.cmd = "search" /\ cur_page # last.page0
  /\ Len(jumplist) >= 2 /\ jumplist_cur = Len(jumplist) - 1

\* C3: the jumplist never holds more than JumplistMaxSize entries; an add()
\* on a full list (sc_goto with the cursor at the tail of a full list) drops
\* the oldest entry, keeps the others in order, and leaves the cursor at the
\* last index, on the entry of the position added.
C3_Capacity ==
  /\ [](Len(jumplist) <= JumplistMaxSize)
  /\ [][(last'.cmd = "goto" /\ Len(jumplist) = JumplistMaxSize
          /\ jumplist_cur = JumplistMaxSize - 1)
        => /\ Len(jumplist') = JumplistMaxSize
           /\ jumplist_cur' = JumplistMaxSize - 1
           /\ zathura_jumplist_current([list |-> jumplist', cur |-> jumplist_cur'])
                = Jump(cur_page')
           /\ \A i \in 1..(JumplistMaxSize - 2) : jumplist'[i] = jumplist[i + 1]
           /\ jumplist'[JumplistMaxSize - 1] = Jump(cur_page)]_vars

C3_Witness ==
  /\ last.cmd = "goto" /\ last.len0 = JumplistMaxSize /\ last.cur0 = JumplistMaxSize - 1
  /\ Len(jumplist) = JumplistMaxSize /\ jumplist_cur = JumplistMaxSize - 1
  /\ cur_page # last.page0

\* C4: forward() and backward() move the cursor by exactly one when there is
\* an entry in that direction and change nothing at the respective end, they
\* never change the entries, and hasPrevious() holds exactly when backward()
\* would move (cursor > 0); sc_jumplist(BACKWARD) leaves the cursor one below
\* where it was, or at 0 when it was there.
C4_Traversal ==
  LET f == zathura_jumplist_forward(JL)
      b == zathura_jumplist_backward(JL)
  IN /\ f.list = jumplist /\ b.list = jumplist
     /\ f.cur = IF jumplist_cur + 1 < Len(jumplist) THEN jumplist_cur + 1 ELSE jumplist_cur
     /\ b.cur = IF jumplist_cur > 0 THEN jumplist_cur - 1 ELSE jumplist_cur
     /\ zathura_jumplist_has_previous(JL) <=> (b # JL)
     /\ zathura_jumplist_has_previous(JL) <=> (jumplist_cur > 0)
     /\ JumplistCmd(last, BACKWARD) =>
          jumplist_cur = IF last.cur0 > 0 THEN last.cur0 - 1 ELSE 0
     /\ JumplistCmd(last, FORWARD) => jumplist_cur = last.cur0

C4_Witness ==
  /\ JumplistCmd(last, BACKWARD) /\ last.cur0 = 2 /\ jumplist_cur = 1
  /\ Len(jumplist) = 3
  /\ zathura_jumplist_forward(JL).cur = 2
  /\ zathura_jumplist_backward(JL).cur = 0

\* C5: with two or more entries and the cursor at the tail,
\* sc_jumplist(BACKWARD) directly followed by sc_jumplist(FORWARD) shows the
\* page shown before the BACKWARD command again.
C5_BackForwardRoundTrip ==
  [][(/\ JumplistCmd(last, BACKWARD) /\ last.len0 >= 2 /\ last.cur0 = last.len0 - 1
      /\ JumplistCmd(last', FORWARD))
     => cur_page' = last.page0]_vars

----------------------------------------------------------------------------
(* Bisection, checked under Spec *)

BisectForward(l) == l.cmd = "bisect" /\ l.n = FORWARD /\ l.t = 0

\* C6: a sc_bisect(FORWARD) without count never moves to an earlier page nor
\* past its anchor; the distance from the current page to the anchor of the
\* next call is not larger than it was, and smaller when the page changed, so
\* no page is visited twice; the page stays exactly when it is within one
\* page of the anchor, and then the next call finds it so again.
C6_BisectConverges ==
  BisectForward(last) =>
    /\ last.page0 <= cur_page /\ cur_page <= last.page0 + last.gap0
    /\ BisectGap <= last.gap0
    /\ cur_page # last.page0 => BisectGap < last.gap0
    /\ cur_page = last.page0 <=> last.gap0 <= 1

\* three calls in a row have happened: the jumplist holds the pages of a
\* narrowing run and the page no longer moves
C6_Witness ==
  /\ BisectForward(last) /\ cur_page = last.page0
  /\ number_of_pages = MaxPages
  /\ Len(jumplist) = 3 /\ jumplist_cur = 2
  /\ jumplist[1].page < jumplist[2].page
  /\ jumplist[2].page = jumplist[3].page
  /\ BisectGap = 0

----------------------------------------------------------------------------
(* Scrolling, checked under SpecScroll.  Lengths are in half pixels. *)

HasScrolled == scrolled.n # NotScrolled.n

\* C7: with scroll-wrap enabled the new_value sc_scroll computes lies in
\* [0, max], max = upper - page_size, for every direction, count, value and
\* setting of the other options.
C7_ScrollWrapRange ==
  (HasScrolled /\ settings.scroll_wrap) =>
    LET adj == IF IsHorizontal(scrolled.n) THEN hadjustment ELSE vadjustment
    IN 0 <= scrolled.new_value /\ scrolled.new_value <= adj.upper - adj.page_size

\* C8: with scroll-wrap and scroll-page-aware disabled, twice the distance
\* moved by a Full direction is (2 - 2*overlap) * view + 2 * padding and by a
\* Half direction view + padding, towards 0 for Up/Left and away from it for
\* Down/Right; a step direction moves by step * count (count 0 is 1, the
\* horizontal step is the vertical one when negative); Top gives 0, Bottom
\* max and any other argument the value read.  FullDown from 0 in a view of
\* 500 on a canvas of 1010 with overlap 0 and padding 1 gives 501, and a Top
\* directly after a Bottom leaves the position at 0, the Bottom at max.
C8_ScrollBaseDelta ==
  /\ [](HasScrolled /\ ~settings.scroll_wrap /\ ~settings.scroll_page_aware =>
        LET n == scrolled.n
            adj == IF IsHorizontal(n) THEN hadjustment ELSE vadjustment
            view == adj.page_size
            moved == scrolled.new_value - scrolled.value
            padding == 2 * settings.page_padding
            count == IF scrolled.t = 0 THEN 1 ELSE scrolled.t
            vstep == 2 * settings.scroll_step
            hstep == IF settings.scroll_hstep < 0 THEN vstep
                     ELSE 2 * settings.scroll_hstep
        IN /\ n \in {FULL_DOWN, FULL_RIGHT} =>
                2 * moved = (2 - settings.scroll_full_overlap) * view + 2 * padding
           /\ n \in {FULL_UP, FULL_LEFT} =>
                2 * moved = -((2 - settings.scroll_full_overlap) * view + 2 * padding)
           /\ n \in {HALF_DOWN, HALF_RIGHT} => 2 * moved = view + padding
           /\ n \in {HALF_UP, HALF_LEFT} => 2 * moved = -(view + padding)
           /\ n = DOWN => moved = vstep * count
           /\ n = UP => moved = -(vstep * count)
           /\ n = RIGHT => moved = hstep * count
           /\ n = LEFT => moved = -(hstep * count)
           /\ n = TOP => scrolled.new_value = 0 /\ adj.value = 0
           /\ n = BOTTOM => /\ scrolled.new_value = adj.upper - view
                            /\ adj.value = adj.upper - view
           /\ n = NO_ARG => moved = 0
           /\ (/\ n = FULL_DOWN /\ scrolled.value = 0
               /\ view = 2 * 500 /\ adj.upper = 2 * 1010
               /\ settings.scroll_full_overlap = 0 /\ settings.page_padding = 1)
                => scrolled.new_value = 2 * 501)
  /\ [][(/\ ~settings.scroll_wrap /\ ~settings.scroll_page_aware
         /\ scrolled.n = BOTTOM /\ scrolled'.n = TOP)
        => /\ vadjustment.value = vadjustment.upper - vadjustment.page_size
           /\ vadjustment'.value = 0]_vars

\* FullDown has just moved the view of 500 on the canvas of 1010 from 0 to 501
C8_Witness ==
  /\ scrolled = [n |-> FULL_DOWN, t |-> 0, value |-> 0, new_value |-> 2 * 501]
  /\ vadjustment = Adjustment(2 * 501, 2 * 500, 2 * 1010)
  /\ settings = DefaultSettings
  /\ update_page_number

----------------------------------------------------------------------------
(* Search navigation, checked under SpecSearch *)

\* the number of pages from p on to q, counted cyclically: 1..number_of_pages
CyclicDistance(p, q) == ((q - p - 1) % number_of_pages) + 1

WithResults == {q \in Pages : search_length[q] > 0}

\* the page with results that follows p in cyclic document order (p itself
\* when no other page has any)
NextWithResults(p) ==
  CHOOSE q \in WithResults :
    \A r \in WithResults : CyclicDistance(p, q) <= CyclicDistance(p, r)

AdvanceForward(l) ==
  l.cmd = "search" /\ l.n = FORWARD /\ search_direction = FORWARD

Counts020 == number_of_pages = 3 /\ search_length = [q \in 0..2 |-> IF q = 1 THEN 2 ELSE 0]

\* C9 as claimed: on the document with result counts [0,2,0], an
\* advance(Forward) issued from page 0 lands on page 1, result 0.
C9_SearchFromPageZero ==
  [][(Counts020 /\ cur_page = 0 /\ AdvanceForward(last'))
     => (cur_page' = 1 /\ search_current'[1] = 0)]_vars

\* C9, amended: an advance(Forward) moves the active cursor, from whatever
\* page is current: to the next index on its page while there is one (the
\* current page number stays), otherwise to result 0 of the next page with
\* results in cyclic document order, which becomes the current page and is
\* the same page when it is the only one with results; without an active
\* cursor it changes neither the cursors nor the page.  On the counts
\* [0,2,0] result 0 of page 1 is followed by result 1 and result 1 by
\* result 0 of page 1.
C9_SearchCyclicOrder ==
  [][AdvanceForward(last') =>
      /\ ActiveCursors(search_current) = {} =>
           search_current' = search_current /\ cur_page' = cur_page
      /\ \A p \in ActiveCursors(search_current) :
           IF search_current[p] + 1 < search_length[p]
             THEN /\ search_current' = [search_current EXCEPT ![p] = search_current[p] + 1]
                  /\ cur_page' = cur_page
             ELSE /\ ActiveCursors(search_current') = {NextWithResults(p)}
                  /\ search_current'[NextWithResults(p)] = 0
                  /\ cur_page' = NextWithResults(p)
      /\ (Counts020 /\ search_current[1] = 0) => search_current'[1] = 1
      /\ (Counts020 /\ search_current[1] = 1) =>
           search_current'[1] = 0 /\ cur_page' = 1]_vars

\* the advance from result 1 of page 1, issued on page 0, has wrapped to
\* result 0 of page 1
C9_Witness ==
  /\ Counts020 /\ AdvanceForward(last) /\ last.page0 = 0
  /\ search_current[1] = 0 /\ cur_page = 1
  /\ jumplist = <<Jump(0), Jump(1)>> /\ jumplist_cur = 1

LeavesPage(p, diff) ==
  /\ search_current[p] # -1
  /\ search_current[p] = IF diff = 1 THEN search_length[p] - 1 ELSE 0

\* C10: at most one page has an active cursor, after any sequence of
\* sc_search calls; a call that leaves the page of the active cursor ends with
\* exactly one active cursor, on the first result (stepping forward) or the
\* last (stepping backward) of the target page, the page left having none
\* unless it is the target itself.
C10_SingleActiveCursor ==
  /\ [](Cardinality(ActiveCursors(search_current)) <= 1)
  /\ [][\A p \in Pages :
          (last'.cmd = "search" /\ LeavesPage(p, search_diff(last'.n))) =>
            /\ Cardinality(ActiveCursors(search_current')) = 1
            /\ \A q \in ActiveCursors(search_current') :
                 /\ search_current'[q] =
                      IF search_diff(last'.n) = 1 THEN 0 ELSE search_length[q] - 1
                 /\ q = cur_page'
                 /\ q # p => search_current'[p] = -1]_vars

\* a backward step has left a page for the last result of another one
C10_Witness ==
  /\ last.cmd = "search" /\ search_diff(last.n) = -1
  /\ cur_page # last.page0
  /\ ActiveCursors(search_current) = {cur_page}
  /\ search_current[cur_page] = search_length[cur_page] - 1
  /\ search_length[cur_page] = MaxResults
  /\ \E p \in Pages : p # cur_page /\ search_length[p] > 0

----------------------------------------------------------------------------
(* Links, checked under SpecLink *)

LinkTypes ==
  {ZATHURA_LINK_NONE, ZATHURA_LINK_GOTO_DEST, ZATHURA_LINK_GOTO_REMOTE,
   ZATHURA_LINK_URI, ZATHURA_LINK_LAUNCH, ZATHURA_LINK_NAMED}

StringLinkTypes ==
  {ZATHURA_LINK_GOTO_REMOTE, ZATHURA_LINK_URI, ZATHURA_LINK_LAUNCH, ZATHURA_LINK_NAMED}

Constructed == link_args # NoLinkArgs

Evaluated == effects.cmd = "evaluate" /\ document_loaded /\ ~link.null

\* C11: zathura_link_new returns no object for a type that is none of None,
\* GotoDestination, GotoRemote, Uri, Launch, Named, and for GotoRemote, Uri,
\* Launch and Named when the string is null; it returns a link for None and
\* GotoDestination with or without a string; a link returned reports the
\* type and the position given.
C11_LinkConstruction ==
  Constructed =>
    /\ link_args.type \notin LinkTypes => link.null
    /\ (link_args.type \in StringLinkTypes /\ link_args.target.value = NULL) => link.null
    /\ link_args.type \in {ZATHURA_LINK_NONE, ZATHURA_LINK_GOTO_DEST} => ~link.null
    /\ (link_args.type \in StringLinkTypes /\ link_args.target.value # NULL) => ~link.null
    /\ ~link.null =>
         /\ zathura_link_get_type(link) = link_args.type
         /\ zathura_link_get_position(link) = link_args.position
    /\ link.null => zathura_link_get_type(link) = ZATHURA_LINK_INVALID

\* a GotoDestination link constructed without a string
C11_Witness ==
  /\ link_args.type = ZATHURA_LINK_GOTO_DEST /\ link_args.target.value = NULL
  /\ ~link.null /\ link.type = ZATHURA_LINK_GOTO_DEST /\ link.position = 7
  /\ link.target = link_args.target

\* C12: a link of type GotoRemote, Uri, Launch or Named carries a non-empty
\* string; constructing one with an empty string gives no object.
C12_LinkPayload ==
  /\ (~link.null /\ link.type \in StringLinkTypes) => link.target.value \notin {NULL, ""}
  /\ (Constructed /\ link_args.type \in StringLinkTypes /\ link_args.target.value = "")
       => link.null

\* C13: an evaluation of a Uri or Launch link asks the external opener once;
\* when it fails exactly one error is notified, and the current page, the
\* scale and the jumplist stay as they were; when it succeeds nothing is
\* notified; the evaluation of a GotoRemote link notifies nothing.
C13_OpenerFailure ==
  /\ [](Evaluated =>
         /\ link.type \in {ZATHURA_LINK_URI, ZATHURA_LINK_LAUNCH} =>
              /\ effects.xdg_open = 1
              /\ effects.notify = IF effects.opener_ok THEN 0 ELSE 1
         /\ link.type = ZATHURA_LINK_GOTO_REMOTE =>
              effects.notify = 0 /\ effects.xdg_open = 0)
  /\ [][(effects'.cmd = "evaluate"
         /\ link.type \in {ZATHURA_LINK_URI, ZATHURA_LINK_LAUNCH, ZATHURA_LINK_GOTO_REMOTE})
        => /\ cur_page' = cur_page /\ scale' = scale
           /\ jumplist' = jumplist /\ jumplist_cur' = jumplist_cur
           /\ position_request' = position_request]_vars

\* the opener has failed to launch a path next to the document
C13_Witness ==
  /\ Evaluated /\ link.type = ZATHURA_LINK_LAUNCH /\ ~effects.opener_ok
  /\ effects.notify = 1 /\ effects.xdg_open = 1 /\ effects.spawn = 0
  /\ effects.opened = <<"dirname", "a.pdf">>
  /\ jumplist = <<Jump(0)>>

\* the evaluation of a GotoDestination link that reaches its target page
GotoDestination(l) ==
  /\ document_loaded /\ ~l.null /\ l.type = ZATHURA_LINK_GOTO_DEST
  /\ l.target.destination_type # ZATHURA_LINK_DESTINATION_UNKNOWN
  /\ l.target.page_number \in Pages

\* d is the length l times the scale sc
Scaled(d, l, sc) == d * sc.den = l * sc.num

\* C15: evaluating a GotoDestination link with a known destination type and
\* an existing target page sets the scale to target.scale when that is not
\* zero, makes the target page current, and requests the position of the
\* page's offset, to which for type XYZ left*scale is added in x only if
\* left is not -1 and top*scale in y only if top is not -1, scale being the
\* scale after target.scale has been applied; for the other known types the
\* position is the offset unchanged.
C15_GotoDestinationPosition ==
  [][(effects'.cmd = "evaluate" /\ GotoDestination(link) /\ settings.link_hadjust) =>
       LET target == link.target
           offset == effects'.offset
           sc == IF target.scale.num # 0 THEN target.scale ELSE scale
           xyz == target.destination_type = ZATHURA_LINK_DESTINATION_XYZ
       IN /\ scale' = sc
          /\ cur_page' = target.page_number
          /\ position_request'.requested
          /\ IF xyz /\ target.left # -1
               THEN Scaled(position_request'.x - offset.x, target.left, scale')
               ELSE position_request'.x = offset.x
          /\ IF xyz /\ target.top # -1
               THEN Scaled(position_request'.y - offset.y, target.top, scale')
               ELSE position_request'.y = offset.y]_vars

\* an XYZ destination with a scale of its own, a left sentinel and a top
C15_Witness ==
  /\ Evaluated /\ GotoDestination(link)
  /\ link.target.destination_type = ZATHURA_LINK_DESTINATION_XYZ
  /\ link.target.scale = Rat(1, 2) /\ link.target.left = -1 /\ link.target.top = 4
  /\ link.target.page_number = 1 /\ cur_page = 1
  /\ effects.offset = [x |-> 3, y |-> 5]
  /\ scale = Rat(1, 2)
  /\ position_request = [x |-> 3, y |-> 7, requested |-> TRUE]

----------------------------------------------------------------------------
(* sc_navigate, checked under SpecNavigate *)

\* the unsigned count c is at least the small number k
CountAtLeast(c, k) == c.hi > 0 \/ c.lo >= k

\* C14: without scroll-wrap, sc_navigate NEXT or PREVIOUS with any count
\* whose target cur + count or cur - count lies outside [0, numberOfPages)
\* leaves the current page as it is; with the target inside that range the
\* current page becomes the target; the count 0 stands for 1, or for
\* pages-per-row when advance-pages-per-row is set.
C14_NavigateBounds ==
  [][\A n \in {NEXT, PREVIOUS}, t \in Counts :
       (/\ ~settings.scroll_wrap
        /\ sc_navigate(n, t, FALSE, settings.advance_pages_per_row,
                       settings.pages_per_row))
       => LET count == IF t = U32Of(0)
                         THEN U32Of(IF settings.advance_pages_per_row
                                      THEN settings.pages_per_row ELSE 1)
                         ELSE t
              outside == IF n = NEXT
                           THEN CountAtLeast(count, number_of_pages - cur_page)
                           ELSE CountAtLeast(count, cur_page + 1)
          IN cur_page' = IF outside THEN cur_page
                         ELSE IF n = NEXT THEN cur_page + count.lo
                         ELSE cur_page - count.lo]_vars

----------------------------------------------------------------------------
(* sc_adjust_window, checked under SpecAdjust *)

\* sc_adjust_window has run in mode n on a loaded document
Adjusted(n) == effects.cmd = "adjust_window" /\ document_loaded /\ adjust_mode = n

\* C16 as claimed: in BESTFIT mode sc_adjust_window uses the WIDTH formula
\* exactly when cellHeight/unscaledCellWidth < viewportHeight/viewportWidth,
\* and otherwise sets scale = viewportHeight / unscaledCellHeight.
C16_BestfitOneCell ==
  Adjusted(ZATHURA_ADJUST_BESTFIT) =>
    IF effects.cell.height * effects.view.width < effects.view.height * effects.cell.width
      THEN effects.branch = "width"
      ELSE /\ effects.branch = "height"
           /\ scale = Rat(effects.view.height, effects.cell.height)

\* C16, amended: in BESTFIT mode sc_adjust_window uses the WIDTH formula
\* exactly when cellHeight/rowWidth < viewportHeight/viewportWidth, rowWidth
\* being the width of a whole row of cells at scale 1,
\* pagesPerRow * unscaledCellWidth + (pagesPerRow - 1) * padding, and
\* otherwise sets scale = viewportHeight / unscaledCellHeight; the WIDTH
\* formula gives (viewportWidth - (pagesPerRow - 1) * padding) /
\* (pagesPerRow * unscaledCellWidth) when no scrollbar takes space.
C16_BestfitWholeRow ==
  Adjusted(ZATHURA_ADJUST_BESTFIT) =>
    LET ppr == settings.pages_per_row
        row_width == ppr * effects.cell.width + (ppr - 1) * settings.page_padding
    IN IF effects.cell.height * effects.view.width < effects.view.height * row_width
         THEN /\ effects.branch = "width"
              /\ ~settings.show_scrollbars =>
                   Scaled(effects.view.width - (ppr - 1) * settings.page_padding,
                          ppr * effects.cell.width, scale)
         ELSE /\ effects.branch = "height"
              /\ Scaled(effects.view.height, effects.cell.height, scale)

\* two square cells in a row before a view of 3 by 2: one cell is not
\* narrower than the view, the row is
C16_Witness ==
  /\ Adjusted(ZATHURA_ADJUST_BESTFIT)
  /\ settings.pages_per_row = 2 /\ settings.page_padding = 0
  /\ effects.cell = [width |-> 1, height |-> 1]
  /\ effects.view = [width |-> 3, height |-> 2]
  /\ effects.branch = "width" /\ effects.render_all = 1
  /\ scale = Rat(3, 2)

\* C17: when no document is loaded or the view has a width or a height that
\* is not positive, sc_adjust_window changes neither the scale nor the
\* adjust mode and asks for no rendering.
C17_AdjustNoOp ==
  [][(/\ effects'.cmd = "adjust_window"
      /\ \/ ~document_loaded
         \/ effects'.view.width <= 0
         \/ effects'.view.height <= 0)
     => /\ scale' = scale
        /\ adjust_mode' = adjust_mode
        /\ effects'.render_all = 0]_vars

----------------------------------------------------------------------------
(* sc_rotate, checked under SpecRotate *)

Rotated(n) == effects.cmd = "rotate" /\ effects.n = n

\* the count t, a small number, as sc_rotate reads it
SmallCount(t) == IF t.lo = 0 THEN 1 ELSE t.lo

\* t * 90 * k modulo 360 for an unsigned count t, from t modulo 4 (2^16 is a
\* multiple of 4)
QuarterTurns(t, k) ==
  LET count == IF t = U32Of(0) THEN 1 ELSE (t.lo % 4)
  IN (90 * k * count) % 360

\* C18: after any sequence of sc_rotate calls, with every count that an
\* unsigned int of 32 bits holds, the rotation is one of 0, 90, 180, 270; a
\* clockwise call adds 90*t and a counter-clockwise call 270*t modulo 360
\* (the count 0 stands for 1), so that a clockwise call followed by a
\* counter-clockwise call with the same count restores the rotation.
C18_RotationDomain ==
  /\ [](rotation \in {0, 90, 180, 270})
  /\ [](Rotated(ROTATE_CW) =>
          rotation = (effects.rotation0 + QuarterTurns(effects.count, 1)) % 360)
  /\ [](Rotated(ROTATE_CCW) =>
          rotation = (effects.rotation0 + QuarterTurns(effects.count, 3)) % 360)
  /\ [][(/\ Rotated(ROTATE_CW) /\ effects'.cmd = "rotate" /\ effects'.n = ROTATE_CCW
         /\ effects'.count = effects.count /\ effects'.rotation0 = rotation)
        => rotation' = effects.rotation0]_vars

----------------------------------------------------------------------------
(* sc_bisect with a count and its refining branch, checked under Spec *)

\* a sc_bisect whose count names a page of the document
BisectExplicit(l) == l.cmd = "bisect" /\ l.t >= 1 /\ l.t <= number_of_pages

\* a sc_bisect with a count that names no page
BisectIgnored(l) == l.cmd = "bisect" /\ l.t > number_of_pages

\* the jump to page t - 1 recorded with add(), then the bisection in the
\* given direction
BisectFrom(direction, t) ==
  LET jl == zathura_jumplist_add(zathura_jumplist_save(JL, cur_page), t - 1)
  IN bisect_switch(direction, t - 1, bisect_peek(jl))

\* the bisection in the direction of the argument, the count ignored
BisectPlain(direction) ==
  bisect_switch(direction, cur_page, bisect_peek(zathura_jumplist_save(JL, cur_page)))

\* the step leaves what r says
BisectGives(r) ==
  /\ cur_page' = r.page
  /\ jumplist' = r.jl.list
  /\ jumplist_cur' = r.jl.cur

\* C19 as claimed: a sc_bisect with a count t, 1 <= t <= numberOfPages, jumps
\* to page t-1, records it with add() and bisects Backward if page t-1
\* precedes the page that was current when the command started, Forward
\* otherwise; a count outside that range is ignored and the direction of the
\* argument is used.
C19_BisectExplicitPrecedes ==
  [][/\ BisectExplicit(last') =>
          BisectGives(BisectFrom(IF last'.t - 1 < cur_page THEN BACKWARD ELSE FORWARD,
                                 last'.t))
     /\ BisectIgnored(last') => BisectGives(BisectPlain(last'.n))]_vars

\* C19, amended: a sc_bisect with a count t, 1 <= t <= numberOfPages, jumps
\* to page t-1, records it with add() and bisects Backward if page t-1
\* follows the page that was current when the command started, Forward
\* otherwise, so that it ends on the midpoint of the two pages; a count
\* outside that range is ignored and the direction of the argument is used.
C19_BisectExplicitFollows ==
  /\ [](BisectExplicit(last) => cur_page = (last.page0 + last.t - 1) \div 2)
  /\ [][/\ BisectExplicit(last') =>
             BisectGives(BisectFrom(IF last'.t - 1 > cur_page THEN BACKWARD ELSE FORWARD,
                                    last'.t))
        /\ BisectIgnored(last') => BisectGives(BisectPlain(last'.n))]_vars

\* from page 3 the count 1 has named page 0: the bisection went forward from
\* page 0 to the midpoint, page 1, and the jumplist holds the three pages
C19_Witness ==
  /\ BisectExplicit(last) /\ last.t = 1 /\ last.page0 = 3 /\ last.len0 = 0
  /\ cur_page = 1
  /\ jumplist = <<Jump(3), Jump(0), Jump(1)>> /\ jumplist_cur = 2

\* the entry before the cursor and the one before that
PrevPage == jumplist[jumplist_cur].page
Prev2Page == jumplist[jumplist_cur - 1].page

\* the refining branch of a bisection in direction n is about to be taken
BisectRefines(n) ==
  /\ jumplist_cur >= 2 /\ jumplist_cur < Len(jumplist)
  /\ IF n = FORWARD THEN PrevPage < cur_page /\ cur_page < Prev2Page
                    ELSE PrevPage > cur_page /\ cur_page > Prev2Page

\* C20: in a Forward bisect where prev exists with curPage > prevPage and
\* prev2 exists with curPage < prev2Page, after the command the entry one
\* step before the cursor holds the page that was current before the
\* command, the cursor entry and the current page are the midpoint
\* (curPage + prev2Page)/2, and the length of the jumplist and the cursor
\* are what they were; the Backward case is symmetric.
C20_BisectRefine ==
  [][\A n \in {FORWARD, BACKWARD} :
       (last'.cmd = "bisect" /\ last'.n = n /\ last'.t = 0 /\ BisectRefines(n))
       => LET mid == (cur_page + Prev2Page) \div 2
          IN /\ cur_page' = mid
             /\ Len(jumplist') = Len(jumplist)
             /\ jumplist_cur' = jumplist_cur
             /\ jumplist'[jumplist_cur' + 1].page = mid
             /\ jumplist'[jumplist_cur'].page = cur_page]_vars

----------------------------------------------------------------------------
(* sc_bisect, checked under SpecBisect *)

\* the jumplist sc_bisect(n, t) looks into: saved, and with the page the count
\* names added
BisectPeeked(t) ==
  LET j1 == zathura_jumplist_save(JL, cur_page)
  IN IF t > 0 /\ t <= number_of_pages
       THEN zathura_jumplist_add(j1, page_set(cur_page, t - 1))
       ELSE j1

\* the look at prev and prev2 leaves jl as it was and finds what is there
PeekLeaves(jl) ==
  LET pk == bisect_peek(jl)
  IN /\ pk.jl = jl
     /\ pk.have_prev <=> jl.cur >= 1
     /\ pk.have_prev2 <=> jl.cur >= 2
     /\ pk.have_prev => pk.prev_page = jl.list[jl.cur].page
     /\ pk.have_prev2 => pk.prev2_page = jl.list[jl.cur - 1].page

\* C21: the look at prev and prev2 by pairs of backward() and forward() in
\* sc_bisect leaves the cursor and every entry of the jumplist as they were,
\* with 0, 1, 2 or more entries before the cursor; have_prev is set iff at
\* least one entry precedes the cursor and have_prev2 iff at least two do.
C21_PeekNonDisturbing ==
  /\ [](PeekLeaves(JL))
  /\ [][last'.cmd = "bisect" => PeekLeaves(BisectPeeked(last'.t))]_vars

\* a bisection has looked into a jumplist with two entries before the cursor
C21_Witness ==
  /\ last.cmd = "bisect" /\ last.t = 0 /\ last.cur0 = 2 /\ last.len0 = 3
  /\ bisect_peek(JL).have_prev2

\* a sc_bisect in direction n whose count names no page
BisectPlainly(l, n) ==
  l.cmd = "bisect" /\ l.n = n /\ (l.t = 0 \/ l.t > number_of_pages)

\* neither prev nor prev2 is an anchor of a bisection in direction n
NoAnchor(n) ==
  LET has_prev == jumplist # <<>> /\ jumplist_cur >= 1
      has_prev2 == jumplist # <<>> /\ jumplist_cur >= 2
  IN IF n = FORWARD
       THEN /\ ~(has_prev /\ cur_page <= PrevPage)
            /\ ~(has_prev2 /\ cur_page <= Prev2Page)
       ELSE /\ ~(has_prev /\ PrevPage <= cur_page)
            /\ ~(has_prev2 /\ Prev2Page <= cur_page)

Min(a, b) == IF a < b THEN a ELSE b

\* C22: when neither prev nor prev2 is an applicable anchor (the jumplist
\* may be empty, the document may have one page), a Forward bisect sets the
\* page to (curPage + numPages - 1)/2 and a Backward bisect to curPage/2,
\* divided as integers, and both record the new page with add(): the cursor
\* ends at the tail, on the new page, after the entry of the page left.
C22_BisectFallback ==
  [][\A n \in {FORWARD, BACKWARD} :
       (BisectPlainly(last', n) /\ NoAnchor(n))
       => LET mid == IF n = FORWARD THEN (cur_page + number_of_pages - 1) \div 2
                     ELSE cur_page \div 2
              len == Len(jumplist')
          IN /\ cur_page' = mid
             /\ len = Min(jumplist_cur + 2, JumplistMaxSize)
             /\ jumplist_cur' = len - 1
             /\ jumplist'[len].page = mid
             /\ jumplist'[len - 1].page = cur_page]_vars

\* a Backward bisect from page 3 with an empty jumplist has gone to page 1
C22_Witness ==
  /\ last.cmd = "bisect" /\ last.n = BACKWARD /\ last.t = 0
  /\ last.len0 = 0 /\ last.page0 = 3
  /\ cur_page = 1
  /\ jumplist = <<Jump(3), Jump(1)>> /\ jumplist_cur = 1

----------------------------------------------------------------------------
(* Page-aware scrolling, checked under SpecSnap.  Lengths are in half pixels. *)

ForwardPaging == {FULL_DOWN, HALF_DOWN, FULL_RIGHT, HALF_RIGHT}

\* C24: with scroll-page-aware, for FullDown, HalfDown, FullRight and
\* HalfRight, whenever the current page starts before the end of the
\* visible area (pageStart < value + viewportExtent), the new scroll value
\* is at most pageStart + pageExtent + 1: it never passes the start of the
\* next page by more than one pixel, with and without scroll-wrap.
C24_PageAwareForwardLimit ==
  [][\A n \in ForwardPaging :
       (n = scrolled'.n) =>
         \A page \in ScrollPages(n) :
           LET adj == scroll_adjustment(n)
               pg == scroll_page(page, settings)
           IN (/\ settings.scroll_page_aware
               /\ sc_scroll_page(n, 0, page)
               /\ pg.page_offset < adj.value + adj.page_size)
              => /\ scrolled'.new_value <= pg.page_offset + pg.page_size + Px(1)
                 /\ scroll_adjustment(n)'.value
                      <= pg.page_offset + pg.page_size + Px(1)]_vars

\* FullDown from 0 in a view of 3 on a canvas of 5, the page ending at 1: the
\* view has gone to 2, one pixel past the end of the page, where the plain
\* move goes to 3
C24_Witness ==
  /\ settings.scroll_page_aware /\ ~settings.scroll_wrap
  /\ settings.page_padding = 0 /\ settings.scroll_full_overlap = 0
  /\ scrolled = [n |-> FULL_DOWN, t |-> 0, value |-> 0, new_value |-> Px(2)]
  /\ vadjustment = Adjustment(Px(2), Px(3), Px(5))

\* the adjustment the last sc_scroll read
ScrolledFrom ==
  [scroll_adjustment(scrolled.n) EXCEPT !.value = scrolled.value]

\* what the last sc_scroll computes without scroll-page-aware
PlainValue ==
  scroll_new_value(scrolled.n, scrolled.t, ScrolledFrom,
                   [settings EXCEPT !.scroll_page_aware = FALSE], NoPage)

\* C25: the snapping to the page comes after the wrapping and only for the
\* Full and Half directions: for Up, Down, Left, Right, Top and Bottom the
\* value sc_scroll computes with scroll-page-aware equals the value it
\* computes without, in every state and with every setting of the options;
\* for the Full and Half directions it is the snapping of the wrapped value
\* to some place of the page.
C25_PageAwareScope ==
  (HasScrolled /\ settings.scroll_page_aware) =>
    IF scrolled.n \in {UP, DOWN, LEFT, RIGHT, TOP, BOTTOM}
      THEN scrolled.new_value = PlainValue
      ELSE \E page \in PageGeometries(ScrolledFrom) :
             scrolled.new_value =
               scroll_snap(scrolled.n, ScrolledFrom, PlainValue,
                           scroll_page(page, settings))

\* Down by a step from 2 in a view of 1 on a canvas of 3 that wraps: the
\* value is 0, the wrapped one, with the page-aware scrolling on
C25_Witness ==
  /\ settings.scroll_page_aware /\ settings.scroll_wrap
  /\ scrolled = [n |-> DOWN, t |-> 1, value |-> Px(2), new_value |-> 0]
  /\ vadjustment = Adjustment(0, Px(1), Px(3))

----------------------------------------------------------------------------
(* sc_search, one call, checked under SpecAdvance *)

\* the page of the active cursor has a result next to it in the direction d
HasNextResult(p, d) ==
  /\ search_current[p] # -1
  /\ search_current[p] + d \in 0..(search_length[p] - 1)

\* C26: an sc_search whose step finds a next result on the page of the active
\* cursor changes only the resultIndex of that page, by +1 or -1: the current
\* page number, the resultIndex of every other page, the entries of the
\* jumplist and its cursor stay as they were.
C26_SearchWithinPage ==
  [][\A p \in Pages :
       (last'.cmd = "search" /\ HasNextResult(p, search_diff(last'.n))) =>
         /\ search_current' =
              [search_current EXCEPT ![p] = search_current[p] + search_diff(last'.n)]
         /\ search_current'[p] - search_current[p] \in {1, -1}
         /\ cur_page' = cur_page
         /\ jumplist' = jumplist
         /\ jumplist_cur' = jumplist_cur]_vars

\* a forward step on page 1, issued on page 0 with the jumplist cursor on the
\* first of two entries
C26_Witness ==
  /\ last.cmd = "search" /\ search_diff(last.n) = 1
  /\ number_of_pages = 3 /\ cur_page = 0
  /\ search_current = [q \in 0..2 |-> IF q = 1 THEN 1 ELSE -1]
  /\ jumplist = <<Jump(0), Jump(1)>> /\ jumplist_cur = 0

\* C27: an sc_search that leaves the page of the active cursor calls save()
\* before the page changes and add() once the target page is found:
\* afterwards the jumplist cursor is at the tail, the entry there holds the
\* page of the newly active result, the current page number is that page, and
\* the entry before it (when the list has room for it) holds the page the
\* call was issued on.
C27_SearchRecordsHistory ==
  [][\A p \in Pages :
       (last'.cmd = "search" /\ LeavesPage(p, search_diff(last'.n))) =>
         LET saved == zathura_jumplist_save(JL, cur_page)
             added == zathura_jumplist_add(saved, cur_page')
         IN /\ jumplist' = added.list
            /\ jumplist_cur' = Len(jumplist') - 1
            /\ jumplist'[Len(jumplist')].page = cur_page'
            /\ ActiveCursors(search_current') = {cur_page'}
            /\ Len(jumplist') >= 2 => jumplist'[Len(jumplist') - 1].page = cur_page]_vars

\* the page 2 was left for page 1 with the jumplist cursor on the first of
\* two entries: the first entry was overwritten, the second replaced
C27_Witness ==
  /\ last.cmd = "search" /\ last.page0 = 2 /\ last.cur0 = 0 /\ last.len0 = 2
  /\ cur_page = 1 /\ search_current[1] # -1
  /\ jumplist = <<Jump(2), Jump(1)>> /\ jumplist_cur = 1

\* the step of the command n under the session's direction, by the table
CommandStep(n) ==
  CASE n = FORWARD /\ search_direction = FORWARD -> 1
    [] n = BACKWARD /\ search_direction = BACKWARD -> 1
    [] n = FORWARD /\ search_direction = BACKWARD -> -1
    [] n = BACKWARD /\ search_direction = FORWARD -> -1

\* C28: the step of sc_search is +1 for the Forward command in a Forward
\* search and the Backward command in a Backward search, -1 for the two mixed
\* pairs: the cursor moves by it on its page, and on entering a new page
\* the result 0 becomes active for +1, the last result of the page for -1.
C28_SearchDirection ==
  [][\A p \in ActiveCursors(search_current) :
       last'.cmd = "search" =>
         LET step == CommandStep(last'.n)
         IN IF search_current[p] + step \in 0..(search_length[p] - 1)
              THEN search_current'[p] = search_current[p] + step
              ELSE /\ search_current'[cur_page'] =
                        IF step = 1 THEN 0 ELSE search_length[cur_page'] - 1
                   /\ ActiveCursors(search_current') = {cur_page'}]_vars

\* the Backward command in a Backward search has entered a page of two
\* results from another page: its result 0 is active
C28_Witness ==
  /\ last.cmd = "search" /\ last.n = BACKWARD /\ search_direction = BACKWARD
  /\ cur_page # last.page0
  /\ search_length[cur_page] = 2 /\ search_current[cur_page] = 0
  /\ jumplist_cur = Len(jumplist) - 1 /\ jumplist[Len(jumplist)].page = cur_page

----------------------------------------------------------------------------
(* sc_search, any sequence of calls, checked under SpecSearch *)

\* C29: the loops of sc_search end, for every number of pages, every
\* assignment of result counts and every place of the active cursor (none, and
\* a single page with results, included): the outer loop has number_of_pages
\* iterations at most, every index it computes is a
\* page of the document, and for every page the outer loop can stop at, every
\* index the inner loop computes is a page of the document and the inner loop
\* breaks in one of its first number_of_pages iterations.
C29_SearchTerminates ==
  \A n \in {FORWARD, BACKWARD} :
    LET diff == search_diff(n)
    IN /\ \A page_id \in 0..(number_of_pages - 1) : search_scan_page(diff, page_id) \in Pages
       /\ \A page_id \in search_hits(diff) :
            /\ \A npage_id \in 1..number_of_pages :
                 search_next_page(diff, page_id, npage_id) \in Pages
            /\ \E npage_id \in 1..number_of_pages :
                 search_length[search_next_page(diff, page_id, npage_id)] # 0
            /\ search_inner(diff, page_id, 1) \in 1..number_of_pages

\* page 1 is the only one of three with results: a forward step has left its
\* last result and the inner loop has come round to it
C29_Witness ==
  /\ Counts020 /\ AdvanceForward(last)
  /\ cur_page = 1 /\ search_current[1] = 0
  /\ jumplist = <<Jump(1), Jump(1)>> /\ jumplist_cur = 1

IndexInRange(f) ==
  \A p \in Pages : f[p] = -1 \/ f[p] \in 0..(search_length[p] - 1)

\* C30: every page's resultIndex is -1 or a position of the page's result
\* list, after any sequence of sc_search calls from a state where that holds;
\* and a call that finds the active cursor ends with a cursor, on a position
\* of its page's result list: the index it looks up in the list.
C30_SearchIndexInRange ==
  /\ [](IndexInRange(search_current))
  /\ [][(last'.cmd = "search" /\ ActiveCursors(search_current) # {}) =>
          /\ ActiveCursors(search_current') # {}
          /\ \A q \in ActiveCursors(search_current') :
               search_current'[q] \in 0..(search_length[q] - 1)]_vars

\* after enough page changes to fill the jumplist, the last result of a page
\* is active
C30_Witness ==
  /\ last.cmd = "search" /\ Len(jumplist) = JumplistMaxSize
  /\ cur_page # last.page0
  /\ search_length[cur_page] = MaxResults
  /\ search_current[cur_page] = MaxResults - 1

----------------------------------------------------------------------------
(* sc_navigate with scroll-wrap, checked under SpecNavigate *)

\* the count c modulo the small number k, in the integers
CountMod(c, k) == ((c.hi % k) * (65536 % k) + c.lo) % k

\* C31: with scroll-wrap, on every page of a document of number_of_pages >= 1
\* pages and for every unsigned 32-bit count t, sc_navigate NEXT sets the page
\* to (cur + t) mod number_of_pages and PREVIOUS to (cur - t) mod
\* number_of_pages, the modulus of the integers, and the page afterwards is
\* in [0, number_of_pages); the count 0 stands for 1, or for pages-per-row
\* when advance-pages-per-row is set.
C31_NavigateWrapModular ==
  [][\A n \in {NEXT, PREVIOUS}, t \in Counts :
       (/\ settings.scroll_wrap
        /\ sc_navigate(n, t, TRUE, settings.advance_pages_per_row,
                       settings.pages_per_row))
       => LET count == IF t = U32Of(0)
                         THEN U32Of(IF settings.advance_pages_per_row
                                      THEN settings.pages_per_row ELSE 1)
                         ELSE t
              by == CountMod(count, number_of_pages)
          IN /\ cur_page' \in 0..(number_of_pages - 1)
             /\ cur_page' = IF n = NEXT
                              THEN (cur_page + by) % number_of_pages
                              ELSE (cur_page - by) % number_of_pages]_vars

----------------------------------------------------------------------------
(* sc_goto followed by sc_jumplist, checked under Spec *)

\* C32: sc_goto calls save() before it changes the page and add() after: after
\* a goto from page A to page B the jumplist cursor is at the tail, current()
\* holds page B and the entry before it page A, and an sc_jumplist(BACKWARD)
\* that follows brings the viewer back to page A.
C32_GotoBothEnds ==
  /\ [](last.cmd = "goto" =>
          /\ jumplist_cur = Len(jumplist) - 1
          /\ zathura_jumplist_current(JL) = Jump(cur_page)
          /\ Len(jumplist) >= 2
          /\ jumplist[Len(jumplist) - 1] = Jump(last.page0))
  /\ [][(last.cmd = "goto" /\ JumplistCmd(last', BACKWARD)) =>
          /\ cur_page' = last.page0
          /\ jumplist_cur' = jumplist_cur - 1
          /\ jumplist' = jumplist]_vars

\* back on page 0 by sc_jumplist(BACKWARD), issued on page 2 with the cursor
\* on the second of the two entries a goto from page 0 to page 2 leaves
C32_Witness ==
  /\ JumplistCmd(last, BACKWARD) /\ last.page0 = 2 /\ last.cur0 = 1 /\ last.len0 = 2
  /\ cur_page = 0
  /\ jumplist = <<Jump(0), Jump(2)>> /\ jumplist_cur = 0

----------------------------------------------------------------------------
(* sc_adjust_window in mode INPUTBAR, checked under SpecAdjust *)

\* C33: sc_adjust_window in mode INPUTBAR, called directly or by sc_rotate
\* while the adjust mode of the document is INPUTBAR, leaves the scale of the
\* document as it was before the call.
C33_InputbarKeepsScale ==
  [][(/\ effects'.cmd \in {"adjust_window", "rotate"}
      /\ effects' # effects
      /\ adjust_mode' = ZATHURA_ADJUST_INPUTBAR)
     => scale' = scale]_vars

----------------------------------------------------------------------------
(* GotoDestination links and link-hadjust, checked under SpecLinkGoto *)

\* C34: with link-hadjust off the evaluation of a GotoDestination link asks
\* for a vertical position only: the x requested is -1, which leaves the
\* horizontal position untouched, and the y is that of the target; with
\* link-hadjust on the x and the y of the target are requested.
C34_LinkHadjust ==
  [][(effects'.cmd = "evaluate" /\ GotoDestination(link)) =>
       LET target == link.target
           offset == effects'.offset
           xyz == target.destination_type = ZATHURA_LINK_DESTINATION_XYZ
       IN /\ position_request'.requested
          /\ IF xyz /\ target.top # -1
               THEN Scaled(position_request'.y - offset.y, target.top, scale')
               ELSE position_request'.y = offset.y
          /\ IF ~settings.link_hadjust
               THEN position_request'.x = -1
             ELSE IF xyz /\ target.left # -1
               THEN Scaled(position_request'.x - offset.x, target.left, scale')
             ELSE position_request'.x = offset.x
          /\ hadjustment' = hadjustment /\ vadjustment' = vadjustment]_vars

\* link-hadjust is off: the link to left 2, top 4 at scale 2 on the page at
\* (3, 5) has asked for y = 13 and for no x
C34_Witness ==
  /\ Evaluated /\ GotoDestination(link) /\ ~settings.link_hadjust
  /\ link.target.destination_type = ZATHURA_LINK_DESTINATION_XYZ
  /\ link.target.left = 2 /\ link.target.top = 4 /\ link.target.scale = Rat(2, 1)
  /\ effects.offset = [x |-> 3, y |-> 5]
  /\ position_request = [x |-> -1, y |-> 13, requested |-> TRUE]

----------------------------------------------------------------------------
(* Links that cannot be resolved, checked under SpecLink *)

\* a GotoDestination link whose destination type is Unknown or whose target
\* page the document does not have
Unresolvable(l) ==
  /\ document_loaded /\ ~l.null /\ l.type = ZATHURA_LINK_GOTO_DEST
  /\ \/ l.target.destination_type = ZATHURA_LINK_DESTINATION_UNKNOWN
     \/ l.target.page_number \notin Pages

\* C35: the evaluation of a GotoDestination link whose destination type is
\* Unknown, or whose target page is not in the document, changes nothing: the
\* current page, the position requested and the scale of the document are as
\* before the call, also when the link has a scale that is not zero.
C35_UnresolvableLink ==
  [][(effects'.cmd = "evaluate" /\ Unresolvable(link)) =>
       /\ cur_page' = cur_page
       /\ position_request' = position_request
       /\ scale' = scale]_vars

----------------------------------------------------------------------------
(* sc_zoom, checked under SpecZoom *)

Zoomed == effects.cmd = "zoom"

RatLeq(a, b) == ~RatLess(b, a)

\* the fraction sc brought into [lo, hi]
Clamped(sc, lo, hi) == IF RatLess(sc, lo) THEN lo ELSE IF RatLess(hi, sc) THEN hi ELSE sc

\* C36: after every sc_zoom (ZOOM_IN, ZOOM_OUT, ZOOM_SPECIFIC or any other
\* argument, with any count), zoom-min being at most zoom-max, the scale of
\* the document lies in [zoom-min/100, zoom-max/100] and the adjust mode is
\* NONE; ZOOM_SPECIFIC with a count t > 0 gives t/100 brought into that range,
\* with the count 0 it gives 1 brought into that range.
C36_ZoomBounds ==
  (Zoomed /\ settings.zoom_min <= settings.zoom_max) =>
    LET lo == Rat(settings.zoom_min, 100)
        hi == Rat(settings.zoom_max, 100)
        t == effects.count.hi * 65536 + effects.count.lo
    IN /\ RatLeq(lo, scale) /\ RatLeq(scale, hi)
       /\ adjust_mode = ZATHURA_ADJUST_NONE
       /\ effects.n = ZOOM_SPECIFIC =>
            scale = Clamped(IF t > 0 THEN Rat(t, 100) ELSE Rat(1, 1), lo, hi)

\* ZOOM_SPECIFIC with the count 300 under the limits 10 and 200: the scale
\* is 2
C36_Witness ==
  /\ Zoomed /\ effects.n = ZOOM_SPECIFIC /\ effects.count = U32Of(300)
  /\ settings.zoom_min = 10 /\ settings.zoom_max = 200
  /\ scale = Rat(2, 1) /\ adjust_mode = ZATHURA_ADJUST_NONE

----------------------------------------------------------------------------
(* sc_toggle_fullscreen called twice in a row, checked under SpecFullscreen *)

\* the call executed last was sc_toggle_fullscreen on a loaded document that
\* was not fullscreen: it entered fullscreen
Entered ==
  /\ effects.cmd = "toggle_fullscreen"
  /\ document_loaded
  /\ ~effects.before.fullscreen

\* C37: on a loaded document the call of sc_toggle_fullscreen that enters
\* fullscreen leaves the mode fullscreen, pages-per-row is 1 for as long as
\* the mode is fullscreen, and the call of sc_toggle_fullscreen that follows
\* it at once sets pages-per-row, first-page-column and the scale of the
\* document back to what they were before the first call and the mode to
\* normal.
C37_FullscreenRoundTrip ==
  /\ [](Entered => mode = "fullscreen")
  /\ [](mode = "fullscreen" => settings.pages_per_row = 1)
  /\ [][(Entered /\ effects'.cmd = "toggle_fullscreen") =>
          /\ settings'.pages_per_row = effects.before.pages_per_row
          /\ settings'.first_page_column = effects.before.first_page_column
          /\ scale' = effects.before.scale
          /\ mode' = "normal"]_vars

\* fullscreen has just been left: two pages per row, the second column and
\* the scale 3/2 are back, after a fullscreen at another scale
C37_Witness ==
  /\ effects.cmd = "toggle_fullscreen"
  /\ effects.before.fullscreen
  /\ effects.before.pages_per_row = 1
  /\ effects.before.scale # Rat(3, 2)
  /\ mode = "normal"
  /\ settings.pages_per_row = 2
  /\ settings.first_page_column = 2
  /\ scale = Rat(3, 2)

====
